---------------------------- MODULE Spec2Model ----------------------------
(***************************************************************************)
(* State-machine model of sysmon (src/monitoring/sysmon.py): main()'s      *)
(* start-up, the two-tier sampling loop collect(), the GPU backend         *)
(* selector get_vram(), the per-process tracker and main()'s teardown.     *)
(*                                                                         *)
(* Time is counted in units of 10 ms, so the code's 0.05 s floor is 5,     *)
(* the 1.0 s slow-tier gate is 100 and the 5.0 s rescan interval is 500.   *)
(* Reading a source takes no model time: the clocks advance in sleep().    *)
(***************************************************************************)
EXTENDS Integers, Sequences, FiniteSets, TLC

\* ------------------------------------------------------------ constants
\* `if dt < 0.05: continue`
MinDt == 5
\* `if slow_dt >= 1.0:`
SlowInterval == 100
\* PROC_SCAN_INTERVAL = 5.0
PROC_SCAN_INTERVAL == 500
\* _NVML_FAIL_MAX = 3
NVML_FAIL_MAX == 3
\* fmt3: `if not lst or len(lst) < 2: return "-"`
MinValues == 2
\* fmt3, _print_io: `... if len(lst) > 20 else max(lst)`
P95MinLen == 20

\* ------------------------------------------------------------ bounds
\* loop iterations of collect() explored
MaxIter == 4
\* read failures of the plain sources (cpu, disk, mem, irq, vmstat, psi, freq)
MaxFaults == 1
\* incarnations of a process under one PID
MaxGen == 2
\* DURATION (configured run length), in 10 ms units
Duration == 1200
\* value of time.monotonic() when collect() starts
Boot == 1000
\* read failures in a run in which any source may fail on any tick
MaxFaultsAll == 24
\* longest list of values handed to fmt3 and the p95 helper
MaxLen == 23

\* time.sleep(INTERVAL) plus the time the tick took: INTERVAL is configurable,
\* so an iteration may come back below the floor (2), after a fast interval
\* (20), after a second (100) or after a long stall (500)
SleepSteps == {2, 20, 100, 500}
\* steps of the wall clock against the monotonic clock (NTP, suspend)
WallJumps == {0, 700}

\* the tracked PIDs of the process table
Pids == {1, 2}

\* the nine streams, in the order CSVWriters.__init__ opens them
StreamOrder == <<"cpu", "mem", "io", "vram", "irq", "proc", "vmstat", "psi", "freq">>
Streams == {StreamOrder[i] : i \in 1..Len(StreamOrder)}
\* the statistics families of Stats that are lists of samples
Families == {"cpu", "mem", "io", "gpu", "vm", "psi", "proc"}
\* the sources of one tick, in the fixed order collect() attempts them
FastSources == {"cpu", "disk", "mem"}
SlowSources == {"irq", "gpu", "vmstat", "psi", "freq", "proc"}
Sources == FastSources \cup SlowSources
\* snapshots kept from one tick to the next
Snapshots == {"cpu", "disk", "irq", "vmstat"}

\* values of _GPU_BACKEND (the device name in parentheses is dropped)
Uninit == "none"
Disabled == "disabled"
Nvml == "NVML"
Smi == "nvidia-smi"
Amd == "AMD detected"
NoGpu == "none (no NVIDIA GPU found)"
Fallback == "nvidia-smi (NVML fallback)"

VARIABLES
    pc,               \* position of the main thread
    mono, wall,       \* time.monotonic() and time.time()
    start,            \* collect: start = time.time()
    now_mono,         \* collect: now_mono of the current iteration
    prev_time, last_slow, last_proc_scan,
    sample_count, irq_sample_count,
    iter,             \* loop iterations so far (bounded by MaxIter)
    slow_mark,        \* now_mono of the latest tick that entered the slow tier (loop start before the first)
    faults,           \* read failures injected so far (bounded by MaxFaults)
    prev_at,          \* capture time of prev_cpu, prev_disk, prev_irq, prev_vmstat
    curr_ctxt_at,     \* capture time of curr_ctxt, -1 while the name is unbound
    prev_ctxt_at,     \* capture time of prev_ctxt
    rows,             \* data rows written per stream in the current tick
    stats,            \* samples appended per statistics family in the current tick
    tick_tried,       \* sources attempted in the current tick
    tick_ok,          \* sources whose own read succeeded in the current tick
    tick_wrote,       \* sources whose block ran to its end in the current tick
    intr_at,          \* where KeyboardInterrupt was raised ("" = never)
    use_nvml, nvml_fail_count, gpu_backend,
    nvml_hist,        \* outcomes of the direct queries so far, newest last (at most 3 kept)
    gpu_path,         \* paths the latest get_vram() call tried
    proc_gen, proc_alive,   \* process table: incarnation number and liveness per PID
    tracked_pids,     \* pid -> incarnation found by the rescan (0 = not tracked)
    prev_proc,        \* pid -> incarnation the stored reading was taken from (0 = none)
    proc_none,        \* PIDs whose read_proc_stats returned None in the current tick
    proc_delta,       \* pid -> <<incarnation of previous reading, incarnation read>> of the row written this tick
    n_opened,         \* streams opened so far (in StreamOrder)
    close_calls,      \* number of times CSVWriters.close() ran
    telem, gpu_mon,   \* background subprocesses: "none", "running", "killed" (SIGKILL sent), "exited"
    gpu_mon_handle,   \* main holds the Popen handle of the journalctl subprocess
    teardown,         \* the teardown steps executed, in order
    fault_cap,        \* read failures the environment may inject in this run
    recorded,         \* values appended per statistics family in the earlier ticks (counted up to MinValues)
    summary,          \* what print_summary printed per statistics family ("" = not printed yet)
    telem_read,       \* state of the telemetry subprocess when main read xplane_telemetry.csv ("" = not read)
    xp_pc,            \* position of the telemetry recorder's main() ("off" = not under study)
    running,          \* the recorder's flag that its signal handler clears
    consecutive_timeouts, attempt, samples,   \* the recorder's counters (attempt and samples counted up to a cap)
    duration_over,    \* time.time() - start_time has reached args.duration
    xplane_up,        \* X-Plane answers the recorder's packets
    call,             \* the function application under evaluation: its name and arguments
    ret               \* its result, once it has returned

loopVars == <<start, now_mono, prev_time, last_slow, last_proc_scan,
              sample_count, irq_sample_count, iter, slow_mark>>
snapVars == <<prev_at, curr_ctxt_at, prev_ctxt_at>>
sinkVars == <<rows, stats>>
tickVars == <<tick_tried, tick_ok, tick_wrote>>
gpuVars == <<use_nvml, nvml_fail_count, gpu_backend, nvml_hist, gpu_path>>
procEnv == <<proc_gen, proc_alive>>
procVars == <<tracked_pids, prev_proc, proc_none, proc_delta>>
fileVars == <<n_opened, close_calls>>
bgVars == <<telem, gpu_mon, gpu_mon_handle>>
clockVars == <<mono, wall>>

calcVars == <<call, ret>>
recVars == <<xp_pc, running, consecutive_timeouts, attempt, samples,
             duration_over, xplane_up>>
extraVars == <<fault_cap, recorded, summary, telem_read, recVars, calcVars>>

\* the recorder is not under study: its variables rest
RecorderOff ==
    /\ xp_pc = "off" /\ running = TRUE
    /\ consecutive_timeouts = 0 /\ attempt = 0 /\ samples = 0
    /\ duration_over = FALSE /\ xplane_up = FALSE

vars == <<pc, clockVars, loopVars, faults, snapVars, sinkVars, tickVars, intr_at,
          gpuVars, procEnv, procVars, fileVars, bgVars, teardown, extraVars>>

Bump(f, k) == [f EXCEPT ![k] = @ + 1]

\* no function application is under evaluation
NoCall == [fn |-> "none"]
\* the function has not returned yet / has returned v
NoRet == [done |-> FALSE]
Returned(v) == [done |-> TRUE, val |-> v]

Init ==
    /\ pc = "mkdir"
    /\ mono = Boot /\ wall = 0
    /\ start = 0 /\ now_mono = 0
    /\ prev_time = 0 /\ last_slow = 0 /\ last_proc_scan = 0
    /\ sample_count = 0 /\ irq_sample_count = 0
    /\ iter = 0 /\ faults = 0 /\ slow_mark = 0
    /\ prev_at = [s \in Snapshots |-> 0]
    /\ curr_ctxt_at = -1 /\ prev_ctxt_at = 0
    /\ rows = [s \in Streams |-> 0]
    /\ stats = [f \in Families |-> 0]
    /\ tick_tried = {} /\ tick_ok = {} /\ tick_wrote = {}
    /\ intr_at = ""
    /\ use_nvml = FALSE /\ nvml_fail_count = 0 /\ gpu_backend = Uninit
    /\ nvml_hist = <<>> /\ gpu_path = {}
    /\ proc_alive \in [Pids -> BOOLEAN]
    /\ proc_gen = [p \in Pids |-> IF proc_alive[p] THEN 1 ELSE 0]
    /\ tracked_pids = [p \in Pids |-> 0]
    /\ prev_proc = [p \in Pids |-> 0]
    /\ proc_none = {}
    /\ proc_delta = [p \in Pids |-> <<0, 0>>]
    /\ n_opened = 0 /\ close_calls = 0
    /\ telem = "none" /\ gpu_mon = "none" /\ gpu_mon_handle = FALSE
    /\ teardown = <<>>
    /\ fault_cap = MaxFaults
    /\ recorded = [f \in Families |-> 0]
    /\ summary = [f \in Families |-> ""]
    /\ telem_read = ""
    /\ RecorderOff
    /\ call = NoCall /\ ret = NoRet

\* ------------------------------------------------------------ start-up (main)
\* the positions of main() before the with block
StartupPcs == {"mkdir", "init_gpu", "telemetry", "gpu_monitor"}
\* the positions inside the while loop of collect(), after the tick was accepted
TickPcs == {"cpu", "disk", "mem", "irq", "gpu", "vmstat", "psi", "freq",
            "proc", "proc_read", "tick_end"}
\* the positions of main() after the with block
TeardownPcs == {"stop_telem", "stop_gpumon", "report", "correlate"}
\* the run is over
FinalPcs == {"done", "aborted", "crashed"}

\* OUTDIR.mkdir(parents=True, exist_ok=True): an OSError leaves main()
Mkdir(ok) ==
    /\ pc = "mkdir"
    /\ pc' = IF ok THEN "init_gpu" ELSE "aborted"
    /\ UNCHANGED <<extraVars, clockVars, loopVars, faults, snapVars, sinkVars, tickVars,
                   intr_at, gpuVars, procEnv, procVars, fileVars, bgVars, teardown>>

\* init_gpu(disable): the first path that works names the backend
InitGpuBackend(outcome) ==
    CASE outcome = "disabled" -> Disabled
      [] outcome = "nvml" -> Nvml
      [] outcome = "smi" -> Smi
      [] outcome = "amd" -> Amd
      [] OTHER -> NoGpu

InitGpu(outcome) ==
    /\ pc = "init_gpu"
    /\ gpu_backend' = InitGpuBackend(outcome)
    /\ use_nvml' = (outcome = "nvml")
    /\ pc' = "telemetry"
    /\ UNCHANGED <<extraVars, clockVars, loopVars, faults, snapVars, sinkVars, tickVars,
                   intr_at, nvml_fail_count, nvml_hist, gpu_path,
                   procEnv, procVars, fileVars, bgVars, teardown>>

\* `if args.xplane:` and the script exists: Popen of xplane_telemetry.py
StartTelemetry(launch) ==
    /\ pc = "telemetry"
    /\ telem' = IF launch THEN "running" ELSE "none"
    /\ pc' = "gpu_monitor"
    /\ UNCHANGED <<extraVars, clockVars, loopVars, faults, snapVars, sinkVars, tickVars,
                   intr_at, gpuVars, procEnv, procVars, fileVars,
                   gpu_mon, gpu_mon_handle, teardown>>

\* `if not args.no_dmesg:` _start_gpu_event_monitor: the thread assigns proc
\* after Popen; main returns proc after a 0.3 s sleep, assigned by then or not
StartGpuMonitor(launch, assigned) ==
    /\ pc = "gpu_monitor"
    /\ gpu_mon' = IF launch THEN "running" ELSE "none"
    /\ gpu_mon_handle' = (launch /\ assigned)
    /\ pc' = "open"
    /\ UNCHANGED <<extraVars, clockVars, loopVars, faults, snapVars, sinkVars, tickVars,
                   intr_at, gpuVars, procEnv, procVars, fileVars, telem, teardown>>

\* CSVWriters.__init__: _open() of the next stream; on the ninth the with
\* block is entered.  A failing open() raises out of __init__, so the with
\* statement never gets the object and __exit__ is not run.
OpenStream(ok) ==
    /\ pc = "open"
    /\ n_opened < Len(StreamOrder)
    /\ IF ok
         THEN /\ n_opened' = n_opened + 1
              /\ pc' = IF n_opened + 1 = Len(StreamOrder) THEN "prelude" ELSE "open"
         ELSE /\ n_opened' = n_opened
              /\ pc' = "aborted"
    /\ UNCHANGED <<extraVars, clockVars, loopVars, faults, snapVars, sinkVars, tickVars,
                   intr_at, gpuVars, procEnv, procVars, close_calls, bgVars, teardown>>

\* CSVWriters.close(): every file of _files is closed
Close == close_calls' = close_calls + 1

\* a prelude that goes on into the loop when one of its reads failed
PreludeGoesOn(ok) ==
    /\ pc = "prelude"
    /\ IF ok
         THEN /\ prev_at' = [s \in Snapshots |-> mono]
              /\ prev_ctxt_at' = mono
         ELSE /\ UNCHANGED <<prev_at, prev_ctxt_at>>
    /\ prev_time' = mono
    /\ last_slow' = mono
    /\ slow_mark' = mono
    /\ start' = wall
    /\ pc' = "loop"
    /\ UNCHANGED <<extraVars, clockVars, now_mono, last_proc_scan, sample_count,
                   irq_sample_count, iter, faults, curr_ctxt_at, sinkVars,
                   tickVars, intr_at, gpuVars, procEnv, procVars, fileVars,
                   bgVars, teardown>>

\* collect(), before the try: the first reads and the clocks.  A failing read
\* raises out of collect(); the with block's __exit__ then closes the streams.
Prelude(ok) ==
    /\ pc = "prelude"
    /\ IF ok
         THEN /\ prev_at' = [s \in Snapshots |-> mono]
              /\ prev_ctxt_at' = mono
              /\ prev_time' = mono
              /\ last_slow' = mono
              /\ slow_mark' = mono
              /\ start' = wall
              /\ pc' = "loop"
         ELSE /\ UNCHANGED <<prev_at, prev_ctxt_at, prev_time, last_slow, slow_mark, start>>
              /\ pc' = "exc_exit"
    /\ UNCHANGED <<extraVars, clockVars, now_mono, last_proc_scan, sample_count,
                   irq_sample_count, iter, faults, curr_ctxt_at, sinkVars,
                   tickVars, intr_at, gpuVars, procEnv, procVars, fileVars,
                   bgVars, teardown>>

\* __exit__ while an exception propagates: close, then main() is left
WithExitExc ==
    /\ pc = "exc_exit"
    /\ Close
    /\ teardown' = Append(teardown, "close")
    /\ pc' = "crashed"
    /\ UNCHANGED <<extraVars, clockVars, loopVars, faults, snapVars, sinkVars, tickVars,
                   intr_at, gpuVars, procEnv, procVars, n_opened, bgVars>>

\* ------------------------------------------------------------ collect: the loop
\* a floor that only rejects a clock that did not advance
FloorRejectNonPositive(dt) == dt <= 0

\* `if dt < 0.05: continue`
FloorReject(dt) == dt < MinDt

\* a slow-tier gate that needs more than a second
SlowDueStrict(now, last) == now - last > SlowInterval

\* `slow_dt = now_mono - last_slow; if slow_dt >= 1.0:`
SlowDue(now, last) == now - last >= SlowInterval

\* a rescan that is due a second after the last one
ScanDueEarly(now, last) == now - last >= SlowInterval

\* `if now_mono - last_proc_scan >= PROC_SCAN_INTERVAL:`
ScanDue(now, last) == now - last >= PROC_SCAN_INTERVAL

\* a loop that is only left after a tick was accepted
LoopExitAfterSample ==
    /\ pc = "loop"
    /\ ~(wall - start < Duration)
    /\ sample_count > 0
    /\ pc' = "collected"
    /\ UNCHANGED <<extraVars, clockVars, loopVars, faults, snapVars, sinkVars, tickVars,
                   intr_at, gpuVars, procEnv, procVars, fileVars, bgVars, teardown>>

\* `while time.time() - start < DURATION:` is false: collect() returns
LoopExit ==
    /\ pc = "loop"
    /\ ~(wall - start < Duration)
    /\ pc' = "collected"
    /\ UNCHANGED <<extraVars, clockVars, loopVars, faults, snapVars, sinkVars, tickVars,
                   intr_at, gpuVars, procEnv, procVars, fileVars, bgVars, teardown>>

\* the number of values in the lists of statistics family f, counted up to
\* MinValues: those of the earlier ticks and those of the current tick
Recorded(f) ==
    IF recorded[f] + stats[f] >= MinValues THEN MinValues ELSE recorded[f] + stats[f]

\* one pass through the loop head: the while test, time.sleep(INTERVAL),
\* now_mono = time.monotonic(), dt = now_mono - prev_time and the floor test.
\* d is the monotonic time that went by, j the step of the wall clock.
\* An accepted tick starts the per-tick books (rows, stats, tick_*) afresh;
\* the values appended so far stay in the lists (recorded).
LoopHead(d, j) ==
    /\ pc = "loop"
    /\ wall - start < Duration
    /\ iter < MaxIter
    /\ iter' = iter + 1
    /\ mono' = mono + d
    /\ wall' = wall + d + j
    /\ now_mono' = mono + d
    /\ IF FloorReject((mono + d) - prev_time)
         THEN /\ pc' = "loop"
              /\ UNCHANGED <<sinkVars, tickVars, proc_none, proc_delta, recorded>>
         ELSE /\ pc' = "cpu"
              /\ rows' = [s \in Streams |-> 0]
              /\ recorded' = [f \in Families |-> Recorded(f)]
              /\ stats' = [f \in Families |-> 0]
              /\ tick_tried' = {} /\ tick_ok' = {} /\ tick_wrote' = {}
              /\ proc_none' = {}
              /\ proc_delta' = [p \in Pids |-> <<0, 0>>]
    /\ UNCHANGED <<fault_cap, summary, telem_read, recVars, calcVars,
                   start, prev_time, last_slow, last_proc_scan, sample_count,
                   irq_sample_count, slow_mark, faults, snapVars, intr_at,
                   gpuVars, procEnv, tracked_pids, prev_proc, fileVars,
                   bgVars, teardown>>

\* a read or parse of a plain source fails: `except Exception` of its block
\* logs it and the tick goes on with the next source
MayFail(ok) == ok \/ faults < fault_cap
FaultsAfter(ok) == IF ok THEN faults ELSE faults + 1

\* the position after the memory block: the slow tier runs when it is due
AfterFast(now, last) == IF SlowDue(now, last) THEN "irq" ELSE "tick_end"

\* CPU (every sample): parse_cpu_stat binds curr_cpu and curr_ctxt, the rows
\* are written and prev_cpu = curr_cpu
CpuSample(ok) ==
    /\ pc = "cpu"
    /\ MayFail(ok)
    /\ faults' = FaultsAfter(ok)
    /\ tick_tried' = tick_tried \cup {"cpu"}
    /\ IF ok
         THEN /\ rows' = Bump(rows, "cpu")
              /\ stats' = Bump(stats, "cpu")
              /\ prev_at' = [prev_at EXCEPT !["cpu"] = now_mono]
              /\ curr_ctxt_at' = now_mono
              /\ tick_ok' = tick_ok \cup {"cpu"}
              /\ tick_wrote' = tick_wrote \cup {"cpu"}
         ELSE UNCHANGED <<rows, stats, prev_at, curr_ctxt_at, tick_ok, tick_wrote>>
    /\ pc' = "disk"
    /\ UNCHANGED <<extraVars, clockVars, loopVars, prev_ctxt_at, intr_at, gpuVars,
                   procEnv, procVars, fileVars, bgVars, teardown>>

\* Disk IO (every sample)
DiskSample(ok) ==
    /\ pc = "disk"
    /\ MayFail(ok)
    /\ faults' = FaultsAfter(ok)
    /\ tick_tried' = tick_tried \cup {"disk"}
    /\ IF ok
         THEN /\ rows' = Bump(rows, "io")
              /\ stats' = Bump(stats, "io")
              /\ prev_at' = [prev_at EXCEPT !["disk"] = now_mono]
              /\ tick_ok' = tick_ok \cup {"disk"}
              /\ tick_wrote' = tick_wrote \cup {"disk"}
         ELSE UNCHANGED <<rows, stats, prev_at, tick_ok, tick_wrote>>
    /\ pc' = "mem"
    /\ UNCHANGED <<extraVars, clockVars, loopVars, curr_ctxt_at, prev_ctxt_at, intr_at,
                   gpuVars, procEnv, procVars, fileVars, bgVars, teardown>>

\* Memory (every sample); then the gate of the 1-second probes
MemSample(ok) ==
    /\ pc = "mem"
    /\ MayFail(ok)
    /\ faults' = FaultsAfter(ok)
    /\ tick_tried' = tick_tried \cup {"mem"}
    /\ IF ok
         THEN /\ rows' = Bump(rows, "mem")
              /\ stats' = Bump(stats, "mem")
              /\ tick_ok' = tick_ok \cup {"mem"}
              /\ tick_wrote' = tick_wrote \cup {"mem"}
         ELSE UNCHANGED <<rows, stats, tick_ok, tick_wrote>>
    /\ pc' = AfterFast(now_mono, last_slow)
    /\ UNCHANGED <<extraVars, clockVars, loopVars, snapVars, intr_at, gpuVars,
                   procEnv, procVars, fileVars, bgVars, teardown>>

\* Interrupts: a row per IRQ line whose summed delta is > 0 (some or none)
IrqSample(ok, some) ==
    /\ pc = "irq"
    /\ MayFail(ok)
    /\ faults' = FaultsAfter(ok)
    /\ tick_tried' = tick_tried \cup {"irq"}
    /\ slow_mark' = now_mono
    /\ IF ok
         THEN /\ rows' = IF some THEN Bump(rows, "irq") ELSE rows
              /\ prev_at' = [prev_at EXCEPT !["irq"] = now_mono]
              /\ irq_sample_count' = irq_sample_count + 1
              /\ tick_ok' = tick_ok \cup {"irq"}
              /\ tick_wrote' = tick_wrote \cup {"irq"}
         ELSE UNCHANGED <<rows, prev_at, irq_sample_count, tick_ok, tick_wrote>>
    /\ pc' = "gpu"
    /\ UNCHANGED <<extraVars, clockVars, start, now_mono, prev_time, last_slow,
                   last_proc_scan, sample_count, iter, stats, curr_ctxt_at,
                   prev_ctxt_at, intr_at, gpuVars, procEnv, procVars,
                   fileVars, bgVars, teardown>>

\* ------------------------------------------------------------ get_vram
\* a direct query that is made whenever monitoring is not disabled
NvmlTriedAlways == gpu_backend # Disabled

\* `if _USE_NVML:` is reached and true: the direct binding is queried
NvmlTried == gpu_backend # Disabled /\ use_nvml

\* a failure counter that is not reset by a successful query
FailCountNoReset(cnt, ok) == IF ok THEN cnt ELSE cnt + 1

\* `_NVML_FAIL_COUNT = 0  # Reset on success` / `_NVML_FAIL_COUNT += 1`
FailCountAfter(cnt, ok) == IF ok THEN 0 ELSE cnt + 1

\* a switch that waits for one failure more
SwitchLate(cnt) == cnt > NVML_FAIL_MAX

\* `if _NVML_FAIL_COUNT >= _NVML_FAIL_MAX:`
SwitchDue(cnt) == cnt >= NVML_FAIL_MAX

\* `_GPU_BACKEND.replace("NVML", "nvidia-smi (NVML fallback)")`
BackendReplace(b) == IF b = Nvml THEN Fallback ELSE b

\* the last NVML_FAIL_MAX outcomes of the direct queries, newest last
HistAfter(h, ok) ==
    LET a == Append(h, ok)
    IN  IF Len(a) > NVML_FAIL_MAX THEN Tail(a) ELSE a

\* a subprocess path that is not skipped when monitoring is disabled
SmiTriedWhenDisabled(nv) == ~use_nvml \/ ~nv

\* the nvidia-smi path is reached: not disabled, and the direct query was not
\* made or has just failed
SmiTried(nv) == gpu_backend # Disabled /\ (~use_nvml \/ ~nv)

\* a get_vram() that returns "" as soon as the direct query has failed
VramResultNoFallThrough(nv, smi) ==
    IF gpu_backend = Disabled THEN ""
    ELSE IF use_nvml THEN (IF nv THEN "nvml" ELSE "")
    ELSE IF smi = "ok" THEN "smi"
    ELSE ""

\* what get_vram() returns: "" or a row, tagged with the path it came from
VramResult(nv, smi) ==
    IF gpu_backend = Disabled THEN ""
    ELSE IF use_nvml /\ nv THEN "nvml"
    ELSE IF smi = "ok" THEN "smi"
    ELSE ""

\* the columns of vram.csv after the timestamp (header of CSVWriters.__init__;
\* the unit suffixes of the header names are dropped)
VramHeader ==
    <<"mem_used", "mem_total", "mem_free", "temp", "gpu_util", "mem_util",
      "gpu_clock", "mem_clock", "power", "pcie_tx", "pcie_rx",
      "throttle_reasons", "perf_state">>

\* the quantities of the f-string get_vram() returns from the direct binding
NvmlFields ==
    <<"mem_used", "mem_total", "mem_free", "temp", "gpu_util", "mem_util",
      "gpu_clock", "mem_clock", "power", "pcie_tx", "pcie_rx",
      "throttle_reasons", "perf_state">>

\* the quantities of --query-gpu, in the order nvidia-smi prints them
SmiQuery ==
    <<"mem_used", "mem_total", "mem_free", "temp", "gpu_util", "mem_util",
      "gpu_clock", "mem_clock", "power", "perf_state">>

\* `return out + ", 0, 0, 0"`: three literal zeros are appended
SmiFields == SmiQuery \o <<"0", "0", "0">>

\* the fields of a non-empty get_vram() result that came from the given path
RowFields(path) == IF path = "nvml" THEN NvmlFields ELSE SmiFields

\* the path the row of the latest get_vram() call came from: the direct
\* binding when the subprocess was not tried, else the subprocess
RowPath == IF "smi" \in gpu_path THEN "smi" ELSE "nvml"

\* the effect of one get_vram() call on the module globals; nv is the outcome
\* of the direct query, smi the outcome of the subprocess ("ok", "empty", "fail")
GetVram(nv, smi) ==
    /\ IF NvmlTried
         THEN /\ nvml_fail_count' = FailCountAfter(nvml_fail_count, nv)
              /\ nvml_hist' = HistAfter(nvml_hist, nv)
              /\ IF ~nv /\ SwitchDue(FailCountAfter(nvml_fail_count, nv))
                   THEN /\ use_nvml' = FALSE
                        /\ gpu_backend' = BackendReplace(gpu_backend)
                   ELSE UNCHANGED <<use_nvml, gpu_backend>>
         ELSE UNCHANGED <<nvml_fail_count, nvml_hist, use_nvml, gpu_backend>>
    /\ gpu_path' = (IF NvmlTried THEN {"nvml"} ELSE {})
                     \cup (IF SmiTried(nv) THEN {"smi"} ELSE {})

\* VRAM / GPU block of collect(): a non-empty result is written, then split
\* and parsed into the statistics; parses is whether float() accepts the fields
GpuSample(nv, smi, parses) ==
    /\ pc = "gpu"
    /\ MayFail(parses)
    /\ ~parses => VramResult(nv, smi) = "smi"
    /\ faults' = FaultsAfter(parses)
    /\ GetVram(nv, smi)
    /\ tick_tried' = tick_tried \cup {"gpu"}
    /\ IF VramResult(nv, smi) # ""
         THEN /\ rows' = Bump(rows, "vram")
              /\ IF parses
                   THEN /\ stats' = Bump(stats, "gpu")
                        /\ tick_ok' = tick_ok \cup {"gpu"}
                        /\ tick_wrote' = tick_wrote \cup {"gpu"}
                   ELSE UNCHANGED <<stats, tick_ok, tick_wrote>>
         ELSE UNCHANGED <<rows, stats, tick_ok, tick_wrote>>
    /\ pc' = "vmstat"
    /\ UNCHANGED <<extraVars, clockVars, loopVars, snapVars, intr_at, procEnv, procVars,
                   fileVars, bgVars, teardown>>

\* ------------------------------------------------------------ slow tier, continued
\* vmstat: parse_vmstat, then `(curr_ctxt - prev_ctxt) / slow_dt`, which reads
\* the curr_ctxt bound by the CPU block (NameError while it is unbound)
CtxtBound == curr_ctxt_at # -1

VmstatSample(ok) ==
    /\ pc = "vmstat"
    /\ MayFail(ok)
    /\ faults' = FaultsAfter(ok)
    /\ tick_tried' = tick_tried \cup {"vmstat"}
    /\ tick_ok' = IF ok THEN tick_ok \cup {"vmstat"} ELSE tick_ok
    /\ IF ok /\ CtxtBound
         THEN /\ rows' = Bump(rows, "vmstat")
              /\ stats' = Bump(stats, "vm")
              /\ prev_at' = [prev_at EXCEPT !["vmstat"] = now_mono]
              /\ prev_ctxt_at' = curr_ctxt_at
              /\ tick_wrote' = tick_wrote \cup {"vmstat"}
         ELSE UNCHANGED <<rows, stats, prev_at, prev_ctxt_at, tick_wrote>>
    /\ pc' = "psi"
    /\ UNCHANGED <<extraVars, clockVars, loopVars, curr_ctxt_at, intr_at, gpuVars,
                   procEnv, procVars, fileVars, bgVars, teardown>>

\* PSI
PsiSample(ok) ==
    /\ pc = "psi"
    /\ MayFail(ok)
    /\ faults' = FaultsAfter(ok)
    /\ tick_tried' = tick_tried \cup {"psi"}
    /\ IF ok
         THEN /\ rows' = Bump(rows, "psi")
              /\ stats' = Bump(stats, "psi")
              /\ tick_ok' = tick_ok \cup {"psi"}
              /\ tick_wrote' = tick_wrote \cup {"psi"}
         ELSE UNCHANGED <<rows, stats, tick_ok, tick_wrote>>
    /\ pc' = "freq"
    /\ UNCHANGED <<extraVars, clockVars, loopVars, snapVars, intr_at, gpuVars,
                   procEnv, procVars, fileVars, bgVars, teardown>>

\* CPU frequency
FreqSample(ok) ==
    /\ pc = "freq"
    /\ MayFail(ok)
    /\ faults' = FaultsAfter(ok)
    /\ tick_tried' = tick_tried \cup {"freq"}
    /\ IF ok
         THEN /\ rows' = Bump(rows, "freq")
              /\ tick_ok' = tick_ok \cup {"freq"}
              /\ tick_wrote' = tick_wrote \cup {"freq"}
         ELSE UNCHANGED <<rows, tick_ok, tick_wrote>>
    /\ pc' = "proc"
    /\ UNCHANGED <<extraVars, clockVars, loopVars, snapVars, stats, intr_at, gpuVars,
                   procEnv, procVars, fileVars, bgVars, teardown>>

\* ------------------------------------------------------------ per-process tracking
\* find_tracked_procs: every live matching process, under its current name
FindTrackedProcs == [p \in Pids |-> IF proc_alive[p] THEN proc_gen[p] ELSE 0]

\* Per-process tracking, first half: the rescan when it is due.  An exception
\* out of find_tracked_procs (scan_ok false) is caught by the block's handler,
\* which skips the rest of the block.
ProcScan(scan_ok) ==
    /\ pc = "proc"
    /\ MayFail(scan_ok)
    /\ ~scan_ok => ScanDue(now_mono, last_proc_scan)
    /\ faults' = FaultsAfter(scan_ok)
    /\ tick_tried' = tick_tried \cup {"proc"}
    /\ IF ScanDue(now_mono, last_proc_scan) /\ scan_ok
         THEN /\ tracked_pids' = FindTrackedProcs
              /\ last_proc_scan' = now_mono
         ELSE UNCHANGED <<tracked_pids, last_proc_scan>>
    /\ pc' = IF scan_ok THEN "proc_read" ELSE "tick_end"
    /\ UNCHANGED <<extraVars, clockVars, start, now_mono, prev_time, last_slow,
                   sample_count, irq_sample_count, iter, slow_mark, snapVars,
                   sinkVars, tick_ok, tick_wrote, intr_at, gpuVars, procEnv,
                   prev_proc, proc_none, proc_delta, fileVars, bgVars, teardown>>

\* read_proc_stats(pid) returns None: /proc/<pid>/stat is gone
ReadIsNone(p) == ~proc_alive[p]

\* the PIDs the loop over tracked_pids gets to: all of them, or those before
\* the PID r whose read raised out of read_proc_stats (r = 0: none raised)
Reached(p, r) == tracked_pids[p] # 0 /\ (r = 0 \/ p < r)

\* `if pid in prev_proc:` for a PID that was read: a row is written
WritesProcRow(p, r) == Reached(p, r) /\ ~ReadIsNone(p) /\ prev_proc[p] # 0

\* a loop that empties tracked_pids when one read returned None
TrackedClearedOnGone(r) ==
    IF \E p \in Pids : Reached(p, r) /\ ReadIsNone(p)
    THEN [p \in Pids |-> 0]
    ELSE tracked_pids

\* tracked_pids after the loop: a PID whose read returned None is popped
TrackedAfter(r) ==
    [p \in Pids |-> IF Reached(p, r) /\ ReadIsNone(p) THEN 0 ELSE tracked_pids[p]]

\* a loop that pops the PID from tracked_pids only and keeps its reading
PrevProcKeepsGone(r) ==
    [p \in Pids |-> IF Reached(p, r) /\ ~ReadIsNone(p) THEN proc_gen[p]
                    ELSE prev_proc[p]]

\* prev_proc after the loop: popped with the PID, else the new reading
PrevProcAfter(r) ==
    [p \in Pids |-> IF ~Reached(p, r) THEN prev_proc[p]
                    ELSE IF ReadIsNone(p) THEN 0
                    ELSE proc_gen[p]]

\* Per-process tracking, second half: the loop over list(tracked_pids.items())
ProcRead(r) ==
    /\ pc = "proc_read"
    /\ r \in Pids => (tracked_pids[r] # 0 /\ proc_alive[r])
    /\ MayFail(r = 0)
    /\ faults' = FaultsAfter(r = 0)
    /\ tracked_pids' = TrackedAfter(r)
    /\ prev_proc' = PrevProcAfter(r)
    /\ proc_none' = {p \in Pids : Reached(p, r) /\ ReadIsNone(p)}
    /\ proc_delta' = [p \in Pids |-> IF WritesProcRow(p, r)
                                      THEN <<prev_proc[p], proc_gen[p]>>
                                      ELSE <<0, 0>>]
    /\ rows' = [rows EXCEPT !["proc"] = @ + Cardinality({p \in Pids : WritesProcRow(p, r)})]
    /\ stats' = [stats EXCEPT !["proc"] = @ + Cardinality({p \in Pids : WritesProcRow(p, r)})]
    /\ IF r = 0
         THEN /\ tick_ok' = tick_ok \cup {"proc"}
              /\ tick_wrote' = tick_wrote \cup {"proc"}
         ELSE UNCHANGED <<tick_ok, tick_wrote>>
    /\ pc' = "tick_end"
    /\ UNCHANGED <<extraVars, clockVars, loopVars, snapVars, tick_tried, intr_at, gpuVars,
                   procEnv, fileVars, bgVars, teardown>>

\* the end of an accepted tick: `last_slow = now_mono` closes the slow block,
\* then `prev_time = now_mono; sample_count += 1`
EndTick ==
    /\ pc = "tick_end"
    /\ last_slow' = IF SlowDue(now_mono, last_slow) THEN now_mono ELSE last_slow
    /\ prev_time' = now_mono
    /\ sample_count' = sample_count + 1
    /\ pc' = "loop"
    /\ UNCHANGED <<extraVars, clockVars, start, now_mono, last_proc_scan, irq_sample_count,
                   iter, slow_mark, faults, snapVars, sinkVars, tickVars, intr_at, gpuVars,
                   procEnv, procVars, fileVars, bgVars, teardown>>

\* ------------------------------------------------------------ environment
\* a matching process starts under PID p (a new incarnation of the PID)
ProcStart(p) ==
    /\ pc \in {"loop", "proc_read"}
    /\ ~proc_alive[p]
    /\ proc_gen[p] < MaxGen
    /\ proc_gen' = [proc_gen EXCEPT ![p] = @ + 1]
    /\ proc_alive' = [proc_alive EXCEPT ![p] = TRUE]
    /\ UNCHANGED <<extraVars, pc, clockVars, loopVars, faults, snapVars, sinkVars, tickVars,
                   intr_at, gpuVars, procVars, fileVars, bgVars, teardown>>

\* the process under PID p exits
ProcExit(p) ==
    /\ pc \in {"loop", "proc_read"}
    /\ proc_alive[p]
    /\ proc_alive' = [proc_alive EXCEPT ![p] = FALSE]
    /\ UNCHANGED <<extraVars, pc, clockVars, loopVars, faults, snapVars, sinkVars, tickVars,
                   intr_at, gpuVars, proc_gen, procVars, fileVars, bgVars, teardown>>

\* where a KeyboardInterrupt raised at position p takes the main thread:
\* inside the try of collect() the handler after the loop catches it and
\* collect() returns; inside the with block outside that try __exit__ runs
\* while it propagates; in CSVWriters.__init__ and elsewhere in main() it
\* propagates at once
InterruptTarget(p) ==
    IF p = "loop" \/ p \in TickPcs THEN "collected"
    ELSE IF p \in {"prelude", "collected"} THEN "exc_exit"
    ELSE IF p = "open" THEN "aborted"
    ELSE "crashed"

\* SIGINT, or SIGTERM through main._shutdown: `raise KeyboardInterrupt` in the
\* main thread, wherever it is
Signal ==
    /\ intr_at = ""
    /\ pc \notin FinalPcs /\ pc # "exc_exit"
    /\ intr_at' = pc
    /\ pc' = InterruptTarget(pc)
    /\ UNCHANGED <<extraVars, clockVars, loopVars, faults, snapVars, sinkVars, tickVars,
                   gpuVars, procEnv, procVars, fileVars, bgVars, teardown>>

\* the telemetry recorder exits by itself (its own -d duration has passed)
TelemExits ==
    /\ pc = "stop_telem"
    /\ telem = "running"
    /\ telem' = "exited"
    /\ UNCHANGED <<extraVars, pc, clockVars, loopVars, faults, snapVars, sinkVars, tickVars,
                   intr_at, gpuVars, procEnv, procVars, fileVars, gpu_mon,
                   gpu_mon_handle, teardown>>

\* the telemetry recorder that was sent SIGKILL is gone
TelemDies ==
    /\ telem = "killed"
    /\ telem' = "exited"
    /\ UNCHANGED <<pc, fault_cap, recorded, summary, telem_read, recVars, calcVars,
                   clockVars, loopVars, faults, snapVars, sinkVars, tickVars,
                   intr_at, gpuVars, procEnv, procVars, fileVars, gpu_mon,
                   gpu_mon_handle, teardown>>

\* ------------------------------------------------------------ teardown (main)
\* a main() that reports right after the with block, before the stop steps
WithExitThenReport ==
    /\ pc = "collected"
    /\ Close
    /\ teardown' = Append(teardown, "close")
    /\ pc' = "report"
    /\ UNCHANGED <<extraVars, clockVars, loopVars, faults, snapVars, sinkVars, tickVars,
                   intr_at, gpuVars, procEnv, procVars, n_opened, bgVars>>

\* collect() has returned: the with block is left and __exit__ closes the streams
WithExit ==
    /\ pc = "collected"
    /\ Close
    /\ teardown' = Append(teardown, "close")
    /\ pc' = "stop_telem"
    /\ UNCHANGED <<extraVars, clockVars, loopVars, faults, snapVars, sinkVars, tickVars,
                   intr_at, gpuVars, procEnv, procVars, n_opened, bgVars>>

\* the telemetry subprocess after terminate(), wait(timeout=5) and, on
\* TimeoutExpired, kill(): it exits within the wait ("term"); it does not,
\* and SIGKILL has ended it when main goes on ("kill"); or SIGKILL was sent
\* and it is not gone yet, since kill() is not followed by a wait ("later")
TelemAfterStop(how) == IF how = "later" THEN "killed" ELSE "exited"

\* `if xplane_telem_proc and xplane_telem_proc.poll() is None:` terminate(),
\* wait(timeout=5), kill() on timeout; then, in the same branch,
\* `if telem_csv.exists(): lines = sum(1 for _ in open(telem_csv)) - 1`
StopTelemetry(how, csv_exists) ==
    /\ pc = "stop_telem"
    /\ IF telem = "running"
         THEN /\ telem' = TelemAfterStop(how)
              /\ telem_read' = IF csv_exists THEN TelemAfterStop(how) ELSE telem_read
         ELSE UNCHANGED <<telem, telem_read>>
    /\ teardown' = Append(teardown, "stop_telem")
    /\ pc' = "stop_gpumon"
    /\ UNCHANGED <<fault_cap, recorded, summary, recVars, calcVars,
                   clockVars, loopVars, faults, snapVars, sinkVars, tickVars,
                   intr_at, gpuVars, procEnv, procVars, fileVars, gpu_mon,
                   gpu_mon_handle>>

\* `if gpu_mon_proc and gpu_mon_proc.poll() is None:` terminate(),
\* wait(timeout=3), kill() on timeout
StopGpuMonitor ==
    /\ pc = "stop_gpumon"
    /\ gpu_mon' = IF gpu_mon_handle /\ gpu_mon = "running" THEN "exited" ELSE gpu_mon
    /\ teardown' = Append(teardown, "stop_gpumon")
    /\ pc' = "report"
    /\ UNCHANGED <<extraVars, clockVars, loopVars, faults, snapVars, sinkVars, tickVars,
                   intr_at, gpuVars, procEnv, procVars, fileVars, telem,
                   gpu_mon_handle>>

\* what the report shows for statistics family f whose lists hold n values:
\* the CPU table and the per-process table go through fmt3 (a dash below
\* MinValues); _print_procs returns before the table when stats.proc is empty;
\* _print_memory, _print_vmstat, _print_psi and _print_io print mean and max
\* under `if m["used"]:`, `if vm["ctxt"]:`, `if p["cpu_some10"]:` and for every
\* device that has values; _print_gpu prints them under `if g["used"]:` and
\* "No VRAM data collected" otherwise
SummaryOf(f, n) ==
    CASE f = "cpu" -> IF n >= MinValues THEN "figures" ELSE "dash"
      [] f = "proc" -> IF n = 0 THEN "nothing"
                       ELSE IF n >= MinValues THEN "figures" ELSE "dash"
      [] f = "gpu" -> IF n >= 1 THEN "figures" ELSE "no data"
      [] OTHER -> IF n >= 1 THEN "figures" ELSE "nothing"

\* print_summary(stats, ...)
PrintSummary ==
    /\ pc = "report"
    /\ summary' = [f \in Families |-> SummaryOf(f, Recorded(f))]
    /\ teardown' = Append(teardown, "report")
    /\ pc' = "correlate"
    /\ UNCHANGED <<fault_cap, recorded, telem_read, recVars, calcVars, clockVars, loopVars, faults, snapVars, sinkVars, tickVars,
                   intr_at, gpuVars, procEnv, procVars, fileVars, bgVars>>

\* correlate_xplane(OUTDIR, stats, mon_start, elapsed)
CorrelateXplane ==
    /\ pc = "correlate"
    /\ teardown' = Append(teardown, "correlate")
    /\ pc' = "done"
    /\ UNCHANGED <<extraVars, clockVars, loopVars, faults, snapVars, sinkVars, tickVars,
                   intr_at, gpuVars, procEnv, procVars, fileVars, bgVars>>

\* ------------------------------------------------------------ pure functions
\* Numbers the code computes by float division are kept as exact fractions
\* <<numerator, denominator>>; a denominator of 0 stands for the
\* ZeroDivisionError the division would raise.
Frac(n, d) == <<n, d>>
Zero == Frac(0, 1)

Abs(x) == IF x < 0 THEN -x ELSE x

RECURSIVE SumSeq(_)
SumSeq(q) == IF q = <<>> THEN 0 ELSE Head(q) + SumSeq(Tail(q))

RECURSIVE MaxSeq(_)
MaxSeq(q) ==
    IF Len(q) = 1 THEN q[1]
    ELSE LET m == MaxSeq(Tail(q)) IN IF Head(q) >= m THEN Head(q) ELSE m

\* the fields of one cpu line of /proc/stat, in the order parse_cpu_stat keeps them
CpuKeys == {"all", "cpu0"}
CpuMetrics == {"user", "sys", "idle", "iowait", "irq", "softirq", "steal", "guest"}

\* cpu_delta without the `if total == 0:` branch
CpuPctUnguarded(d, total) ==
    [m \in CpuMetrics |->
        CASE m = "user" -> Frac((d[1] + d[2]) * 100, total)
          [] m = "sys" -> Frac(d[3] * 100, total)
          [] m = "idle" -> Frac(d[4] * 100, total)
          [] m = "iowait" -> Frac(d[5] * 100, total)
          [] m = "irq" -> Frac(d[6] * 100, total)
          [] m = "softirq" -> Frac(d[7] * 100, total)
          [] m = "steal" -> Frac(d[8] * 100, total)
          [] OTHER -> IF Len(d) > 9 THEN Frac((d[9] + d[10]) * 100, total)
                      ELSE Frac(d[9] * 100, total)]

\* cpu_delta, the body for one key: `if total == 0:` every percentage is 0,
\* else each is its delta / total * 100
CpuPct(d, total) ==
    IF total = 0 THEN [m \in CpuMetrics |-> Zero]
    ELSE [m \in CpuMetrics |->
        CASE m = "user" -> Frac((d[1] + d[2]) * 100, total)
          [] m = "sys" -> Frac(d[3] * 100, total)
          [] m = "idle" -> Frac(d[4] * 100, total)
          [] m = "iowait" -> Frac(d[5] * 100, total)
          [] m = "irq" -> Frac(d[6] * 100, total)
          [] m = "softirq" -> Frac(d[7] * 100, total)
          [] m = "steal" -> Frac(d[8] * 100, total)
          [] OTHER -> IF Len(d) > 9 THEN Frac((d[9] + d[10]) * 100, total)
                      ELSE Frac(d[9] * 100, total)]

\* `d = [c[i] - p[i] for i in range(len(c))]`
CounterDelta(p, c) == [i \in 1..Len(c) |-> c[i] - p[i]]

\* an entry of zeros for a key of curr that prev does not have
CpuDeltaAllKeys(prev, curr) ==
    [k \in DOMAIN curr |->
        IF k \in DOMAIN prev
        THEN CpuPct(CounterDelta(prev[k], curr[k]), SumSeq(CounterDelta(prev[k], curr[k])))
        ELSE CpuPct(CounterDelta(curr[k], curr[k]), 0)]

\* cpu_delta(prev, curr): one entry per key of curr that prev has too
cpu_delta(prev, curr) ==
    [k \in DOMAIN curr \cap DOMAIN prev |->
        CpuPct(CounterDelta(prev[k], curr[k]), SumSeq(CounterDelta(prev[k], curr[k])))]

\* the counters of one device that diskstat_delta takes deltas of
DiskCounters == {"reads", "writes", "sectors_read", "sectors_written",
                 "ms_reading", "ms_writing", "weighted_ms_io"}
DiskMetrics == {"r_per_s", "w_per_s", "rMB_per_s", "wMB_per_s",
                "avg_r_lat_ms", "avg_w_lat_ms", "io_util_pct"}

\* `* 512 / 1024 / 1024`: 2048 sectors of 512 bytes make one MB
SectorsPerMB == 2048

\* `min(dwio / (dt * 1000) * 100, 100)`, dt being dt10 units of 10 ms
IoUtilPct(dwio, dt10) ==
    IF dwio * 10 <= 100 * dt10 THEN Frac(dwio * 10, dt10) ELSE Frac(100, 1)

\* rates that take a sector for 4096 bytes
DiskRatesBigSectors(p, c, dt10) ==
    LET dr == c["reads"] - p["reads"]
        dw == c["writes"] - p["writes"]
        dsr == c["sectors_read"] - p["sectors_read"]
        dsw == c["sectors_written"] - p["sectors_written"]
        dmr == c["ms_reading"] - p["ms_reading"]
        dmw == c["ms_writing"] - p["ms_writing"]
        dwio == c["weighted_ms_io"] - p["weighted_ms_io"]
    IN  [m \in DiskMetrics |->
            CASE m = "r_per_s" -> Frac(dr * 100, dt10)
              [] m = "w_per_s" -> Frac(dw * 100, dt10)
              [] m = "rMB_per_s" -> Frac(dsr * 100, 256 * dt10)
              [] m = "wMB_per_s" -> Frac(dsw * 100, 256 * dt10)
              [] m = "avg_r_lat_ms" -> IF dr > 0 THEN Frac(dmr, dr) ELSE Zero
              [] m = "avg_w_lat_ms" -> IF dw > 0 THEN Frac(dmw, dw) ELSE Zero
              [] OTHER -> IoUtilPct(dwio, dt10)]

\* diskstat_delta, the body for one device
DiskRates(p, c, dt10) ==
    LET dr == c["reads"] - p["reads"]
        dw == c["writes"] - p["writes"]
        dsr == c["sectors_read"] - p["sectors_read"]
        dsw == c["sectors_written"] - p["sectors_written"]
        dmr == c["ms_reading"] - p["ms_reading"]
        dmw == c["ms_writing"] - p["ms_writing"]
        dwio == c["weighted_ms_io"] - p["weighted_ms_io"]
    IN  [m \in DiskMetrics |->
            CASE m = "r_per_s" -> Frac(dr * 100, dt10)
              [] m = "w_per_s" -> Frac(dw * 100, dt10)
              [] m = "rMB_per_s" -> Frac(dsr * 100, SectorsPerMB * dt10)
              [] m = "wMB_per_s" -> Frac(dsw * 100, SectorsPerMB * dt10)
              [] m = "avg_r_lat_ms" -> IF dr > 0 THEN Frac(dmr, dr) ELSE Zero
              [] m = "avg_w_lat_ms" -> IF dw > 0 THEN Frac(dmw, dw) ELSE Zero
              [] OTHER -> IoUtilPct(dwio, dt10)]

\* diskstat_delta(prev, curr, dt): one entry per device of curr that prev has too
diskstat_delta(prev, curr, dt10) ==
    [dev \in DOMAIN curr \cap DOMAIN prev |-> DiskRates(prev[dev], curr[dev], dt10)]

\* the greatest common divisor of two naturals, not both 0
RECURSIVE Gcd(_, _)
Gcd(a, b) == IF b = 0 THEN a ELSE Gcd(b, a % b)

\* the sum of two fractions with positive denominators, in lowest terms
AddFrac(x, y) ==
    LET n == x[1] * y[2] + y[1] * x[2]
        d == x[2] * y[2]
        g == Gcd(Abs(n), d)
    IN  Frac(n \div g, d \div g)

\* statistics.mean(lst) of a non-empty list of fractions: the exact mean
RECURSIVE SumFrac(_)
SumFrac(lst) == IF lst = <<>> THEN Frac(0, 1) ELSE AddFrac(Head(lst), SumFrac(Tail(lst)))
MeanFrac(lst) == Frac(SumFrac(lst)[1], SumFrac(lst)[2] * Len(lst))

\* the disk block over the ticks of a run, each tick <<dt, curr_disk>>: the
\* results of diskstat_delta, prev_disk being the snapshot of the tick before
RECURSIVE DiskRunRows(_, _)
DiskRunRows(prev_disk, ticks) ==
    IF ticks = <<>> THEN <<>>
    ELSE <<diskstat_delta(prev_disk, Head(ticks)[2], Head(ticks)[1])>>
             \o DiskRunRows(Head(ticks)[2], Tail(ticks))

\* a run of the disk block for device sda: what each tick appends to
\* stats.io["sda"]["wMB_per_s"], and the average _print_io reports for it
DiskRun(prev_disk, ticks) ==
    LET dd == DiskRunRows(prev_disk, ticks)
        w == [i \in 1..Len(dd) |-> dd[i]["sda"]["wMB_per_s"]]
    IN  [wMB_per_s |-> w, write_avg |-> MeanFrac(w)]

\* os.cpu_count()
NUM_CPUS == 2

\* `[curr[irq]["counts"][i] - prev[irq]["counts"][i] for i in range(NUM_CPUS)]`
IrqDelta(p, c) == [i \in 1..NUM_CPUS |-> c.counts[i] - p.counts[i]]

\* a test that lets a line through whose counts did not move
IrqNotNegative(delta) == SumSeq(delta) >= 0

\* `if sum(delta) > 0:`
IrqActive(delta) == SumSeq(delta) > 0

\* interrupt_delta(prev, curr): one entry per line of curr that prev has too
\* and whose deltas sum to more than 0
interrupt_delta(prev, curr) ==
    [irq \in {k \in DOMAIN curr \cap DOMAIN prev : IrqActive(IrqDelta(prev[k], curr[k]))} |->
        [delta |-> IrqDelta(prev[irq], curr[irq]), desc |-> curr[irq].desc]]

\* the interrupt block of a slow tick: the rows <<irq, desc, rate per core>>
\* written to irq.csv, one per entry of interrupt_delta, the rates being
\* delta / slow_dt with slow_dt in units of 10 ms
IrqRows(prev_irq, curr_irq, slow_dt) ==
    LET irq_d == interrupt_delta(prev_irq, curr_irq)
    IN  {<<irq, irq_d[irq].desc,
           [i \in 1..NUM_CPUS |-> Frac(irq_d[irq].delta[i] * 100, slow_dt)]>> :
             irq \in DOMAIN irq_d}

\* a window that leaves out the events exactly `window` away
NearStrict(e_ts, ts, window) == Abs(e_ts - ts) < window

\* `abs(e_ts - ts) <= window`
Near(e_ts, ts, window) == Abs(e_ts - ts) <= window

\* `nearby = [... for e_ts, cat, msg in events if abs(e_ts - ts) <= window]`
Nearby(events, ts, window) == SelectSeq(events, LAMBDA e : Near(e[1], ts, window))

\* the loop of correlate_events over the rows of the file: a row below the
\* threshold is skipped, a row without a nearby event is not appended
RECURSIVE CorrelateRows(_, _, _, _)
CorrelateRows(csv_rows, events, threshold, window) ==
    IF csv_rows = <<>> THEN <<>>
    ELSE LET row == Head(csv_rows)
             rest == CorrelateRows(Tail(csv_rows), events, threshold, window)
         IN  IF row[2] < threshold THEN rest
             ELSE IF Nearby(events, row[1], window) = <<>> THEN rest
             ELSE <<<<row[1], row[2], Nearby(events, row[1], window)>>>> \o rest

\* correlate_events(csv_path, events, ts_col, val_col, threshold, window) for
\* an existing file of well-formed rows <<ts, val>>
correlate_events(csv_rows, events, threshold, window) ==
    IF events = <<>> THEN <<>>
    ELSE CorrelateRows(csv_rows, events, threshold, window)

\* round(csv_ts) for a timestamp given in tenths of a second: Python rounds
\* to the nearest integer and a tie to the even one
Round(t10) ==
    LET q == t10 \div 10
        r == t10 % 10
    IN  IF r < 5 THEN q
        ELSE IF r > 5 THEN q + 1
        ELSE IF q % 2 = 0 THEN q ELSE q + 1

\* `sorted(hits, key=lambda x: -x[1])`: a stable sort, largest value first
RECURSIVE InsertByValue(_, _)
InsertByValue(h, sorted) ==
    IF sorted = <<>> THEN <<h>>
    ELSE IF h[2] > Head(sorted)[2] THEN <<h>> \o sorted
    ELSE <<Head(sorted)>> \o InsertByValue(h, Tail(sorted))

RECURSIVE SortedByValue(_)
SortedByValue(hits) ==
    IF hits = <<>> THEN <<>>
    ELSE InsertByValue(hits[Len(hits)], SortedByValue(SubSeq(hits, 1, Len(hits) - 1)))

\* `[:max_hits]`
Truncated(q, max_hits) == SubSeq(q, 1, IF Len(q) < max_hits THEN Len(q) ELSE max_hits)

\* the loop of _print_correlation_hits: a hit whose rounded second was seen
\* is skipped, the others are printed in turn
RECURSIVE PrintedLines(_, _)
PrintedLines(q, seen) ==
    IF q = <<>> THEN <<>>
    ELSE IF Round(Head(q)[1]) \in seen THEN PrintedLines(Tail(q), seen)
    ELSE <<Head(q)>> \o PrintedLines(Tail(q), seen \cup {Round(Head(q)[1])})

\* _print_correlation_hits(hits, ts_to_rel, val_fmt, max_hits): the lines
\* printed, as the hits <<csv_ts, val>> they show
print_correlation_hits(hits, max_hits) ==
    PrintedLines(Truncated(SortedByValue(hits), max_hits), {})

\* an index one further up (rounding 0.95 * n up)
P95IndexCeil(n) == (n * 95 + 99) \div 100

\* `int(len(lst) * 0.95)`
P95Index(n) == (n * 95) \div 100

\* `sorted(lst)[int(len(lst) * 0.95)] if len(lst) > 20 else max(lst)`
P95(lst) ==
    IF Len(lst) > P95MinLen
    THEN SortSeq(lst, LAMBDA a, b : a < b)[P95Index(Len(lst)) + 1]
    ELSE MaxSeq(lst)

\* fmt3(lst): a dash below two values, else mean, max and p95
fmt3(lst) ==
    IF Len(lst) < MinValues THEN [shown |-> FALSE]
    ELSE [shown |-> TRUE, avg |-> Frac(SumSeq(lst), Len(lst)),
          mx |-> MaxSeq(lst), p95 |-> P95(lst)]

\* str.lower() on a text given as its characters, for the letters used here
Lower(text) ==
    [i \in 1..Len(text) |->
        CASE text[i] = "X" -> "x" [] text[i] = "E" -> "e" [] text[i] = "L" -> "l"
          [] OTHER -> text[i]]

\* `pat.lower() in text.lower()`
ContainsFolded(text, pat) ==
    \E i \in 1..(Len(text) - Len(pat) + 1) :
        SubSeq(Lower(text), i, i + Len(pat) - 1) = Lower(pat)

\* the first pattern the loop `for pat in patterns` finds in the text: its
\* position in patterns, or 0 when the loop ends without a match
FirstMatch(text, patterns) ==
    IF \E k \in 1..Len(patterns) : ContainsFolded(text, patterns[k])
    THEN CHOOSE k \in 1..Len(patterns) :
             /\ ContainsFolded(text, patterns[k])
             /\ \A j \in 1..(k - 1) : ~ContainsFolded(text, patterns[j])
    ELSE 0

\* the loop of find_tracked_procs over the numeric entries of /proc, each
\* <<pid, comm, cmdline, fate>>.  The fate tells what reading the process
\* meets: "ok"; "gone_comm" or "gone_cmdline", the process having vanished
\* before that read (FileNotFoundError or ProcessLookupError, caught: the
\* entry is skipped); "bad_cmdline", a command line whose bytes are not
\* valid text, for which read_file raises UnicodeDecodeError, which the
\* except clause does not name.  The result holds <<pid, comm, k>>, k being
\* 0 for a match on comm and else the pattern of the name "comm[pat]".
RECURSIVE ScanEntries(_, _, _)
ScanEntries(entries, patterns, result) ==
    IF entries = <<>> THEN [raised |-> FALSE, result |-> result]
    ELSE LET pid == Head(entries)[1]
             comm == Head(entries)[2]
             cmdline == Head(entries)[3]
             fate == Head(entries)[4]
             rest == Tail(entries)
         IN  IF fate = "gone_comm" THEN ScanEntries(rest, patterns, result)
             ELSE IF FirstMatch(comm, patterns) # 0
                  THEN ScanEntries(rest, patterns, result \cup {<<pid, comm, 0>>})
             ELSE IF fate = "gone_cmdline" THEN ScanEntries(rest, patterns, result)
             ELSE IF fate = "bad_cmdline" THEN [raised |-> TRUE]
             ELSE IF FirstMatch(cmdline, patterns) # 0
                  THEN ScanEntries(rest, patterns,
                                   result \cup {<<pid, comm, FirstMatch(cmdline, patterns)>>})
             ELSE ScanEntries(rest, patterns, result)

\* find_tracked_procs(patterns) for a readable /proc with the given entries
find_tracked_procs(patterns, entries) == ScanEntries(entries, patterns, {})

\* `int(pm.group(1)) > 100000`: the microseconds above which a preload is an event
PreloadMin == 100000

\* the first category of the order whose substring is among those the rest of
\* the line contains ("none" when there is none)
RECURSIVE FirstIn(_, _)
FirstIn(order, marks) ==
    IF order = <<>> THEN "none"
    ELSE IF Head(order) \in marks THEN Head(order)
    ELSE FirstIn(Tail(order), marks)

\* a chain that tests "E/" before the other substrings
CategorizeErrorFirst(marks) ==
    FirstIn(<<"ERROR", "DSF", "AIRPORT", "WEATHER", "PRELOAD">>, marks)

\* the if / elif chain of "# Categorize": "I/SCN: DSF load", "I/SCN: Loading
\* sim objects", "I/WXR:", "E/", "I/SCN: Preload", named by their categories
Categorize(marks) ==
    FirstIn(<<"DSF", "AIRPORT", "WEATHER", "ERROR", "PRELOAD">>, marks)

\* the events one timestamped line adds, start_ts being known: a line <<kind,
\* ...>> of kind "ts" carries its offset, the substrings of the rules its
\* text contains, whether the details of a DSF or Preload line match their
\* pattern, and the microseconds of a Preload line
LineEvents(line, start_ts) ==
    LET ts == start_ts + line.offset
        cat == Categorize(line.marks)
    IN  CASE cat = "DSF" -> IF line.details THEN <<<<ts, "DSF">>>> ELSE <<>>
          [] cat \in {"AIRPORT", "WEATHER", "ERROR"} -> <<<<ts, cat>>>>
          [] cat = "PRELOAD" ->
                 IF line.details /\ line.us > PreloadMin THEN <<<<ts, "PRELOAD">>>> ELSE <<>>
          [] OTHER -> <<>>

\* the loop of parse_xplane_log over the lines still to read, with the
\* start_ts (0 for None) and the events so far.  Reading a line whose bytes
\* are not text in the encoding of open() raises UnicodeDecodeError out of
\* `for line in f`, which nothing in parse_xplane_log catches.
RECURSIVE ParseLines(_, _, _)
ParseLines(lines, start_ts, events) ==
    IF lines = <<>> THEN [raised |-> FALSE, start_ts |-> start_ts, events |-> events]
    ELSE LET line == Head(lines)
         IN  CASE line.kind = "undecodable" -> [raised |-> TRUE]
               [] line.kind = "start" ->
                      ParseLines(Tail(lines), IF line.date_ok THEN line.start ELSE start_ts,
                                 events)
               [] line.kind = "ts" /\ start_ts # 0 ->
                      ParseLines(Tail(lines), start_ts, events \o LineEvents(line, start_ts))
               [] OTHER -> ParseLines(Tail(lines), start_ts, events)

\* parse_xplane_log(log_path) for a file of the given lines
parse_xplane_log(lines) == ParseLines(lines, 0, <<>>)

\* `mon_start - 5 <= ts <= mon_end + 5`, in seconds
EventMargin == 5

\* a window without the margin
InRunWindowNoMargin(ts, mon_start, mon_end) == mon_start <= ts /\ ts <= mon_end

\* the condition of the xp_in_window comprehension
InRunWindow(ts, mon_start, mon_end) ==
    mon_start - EventMargin <= ts /\ ts <= mon_end + EventMargin

\* `sorted(xp_in_window, key=lambda x: x[0])`: a stable sort, earliest first
RECURSIVE InsertByTs(_, _)
InsertByTs(e, sorted) ==
    IF sorted = <<>> THEN <<e>>
    ELSE IF e[1] < Head(sorted)[1] THEN <<e>> \o sorted
    ELSE <<Head(sorted)>> \o InsertByTs(e, Tail(sorted))

RECURSIVE SortedByTs(_)
SortedByTs(events) ==
    IF events = <<>> THEN <<>>
    ELSE InsertByTs(events[Len(events)], SortedByTs(SubSeq(events, 1, Len(events) - 1)))

\* `msg.replace('"', "'")` on a message given as its characters
MsgClean(msg) == [i \in 1..Len(msg) |-> IF msg[i] = "\"" THEN "'" ELSE msg[i]]

\* the line written for one event: timestamp, offset from mon_start,
\* category, cleaned message (times are whole seconds here, which the
\* formats .3f and .1f print unchanged)
EventRow(e, mon_start) == <<e[1], e[1] - mon_start, e[2], MsgClean(e[3])>>

\* correlate_xplane(outdir, stats, mon_start, elapsed): found is whether
\* find_xplane_log() returned a path, xp_start and xp_events are what
\* parse_xplane_log returned (xp_start 0 for None), csv_rows the rows of
\* io.csv.  The result is the lines of xplane_events.csv, when it is written,
\* and the hits of the first correlation.
correlate_xplane(found, xp_start, xp_events, mon_start, elapsed, csv_rows) ==
    IF ~found \/ xp_start = 0 THEN [exported |-> FALSE]
    ELSE LET mon_end == mon_start + elapsed
             xp_in_window ==
                 SelectSeq(xp_events, LAMBDA e : InRunWindow(e[1], mon_start, mon_end))
             sorted == SortedByTs(xp_in_window)
         IN  [exported |-> TRUE,
              io_hits |-> correlate_events(csv_rows, xp_in_window, 50, 3),
              rows |-> [i \in 1..Len(sorted) |-> EventRow(sorted[i], mon_start)]]

\* the applications: each evaluates its function on the arguments of `call`
CallReturns(fn, v) ==
    /\ pc = "call"
    /\ call.fn = fn
    /\ ~ret.done
    /\ ret' = Returned(v)
    /\ UNCHANGED <<pc, call, fault_cap, recorded, summary, telem_read, recVars,
                   clockVars, loopVars, faults, snapVars, sinkVars, tickVars,
                   intr_at, gpuVars, procEnv, procVars, fileVars, bgVars, teardown>>

CallCpuDelta == CallReturns("cpu_delta", cpu_delta(call.prev, call.curr))
CallDiskstatDelta == CallReturns("diskstat_delta", diskstat_delta(call.prev, call.curr, call.dt))
CallCorrelateEvents ==
    CallReturns("correlate_events",
                correlate_events(call.csv_rows, call.events, call.threshold, call.window))
CallPrintCorrelationHits ==
    CallReturns("print_correlation_hits", print_correlation_hits(call.hits, call.max_hits))
CallFmt3 == CallReturns("fmt3", fmt3(call.lst))
CallP95 == CallReturns("p95", P95(call.lst))
CallInterruptDelta ==
    CallReturns("interrupt_delta", interrupt_delta(call.prev, call.curr))
CallIrqRows == CallReturns("irq_rows", IrqRows(call.prev, call.curr, call.slow_dt))
CallDiskRun == CallReturns("disk_run", DiskRun(call.prev, call.ticks))
CallParseXplaneLog == CallReturns("parse_xplane_log", parse_xplane_log(call.lines))
CallFindTrackedProcs ==
    CallReturns("find_tracked_procs", find_tracked_procs(call.patterns, call.entries))
CallCorrelateXplane ==
    CallReturns("correlate_xplane",
                correlate_xplane(call.found, call.xp_start, call.xp_events,
                                 call.mon_start, call.elapsed, call.csv_rows))

\* ------------------------------------------------------------ cgwatcher
\* cgwatcher.py: an entry of /proc is a record with `digit` (its name is a
\* number), `pid`, `owner` ("own", "other", or "gone" when os.stat raises),
\* what match_process finds (`comm` and `cmdline`: "gone" when the file cannot
\* be read, else the class of the first rule whose pattern the text contains,
\* or "none"), the slice its cgroup path names (`cg`) and its nice value.

\* CLASSES[cls]["nice"]
ClassNice(cls) ==
    CASE cls = "simulator" -> 0 [] cls = "streamer" -> 5 [] cls = "tools" -> 10

\* match_process(pid, rules): the class matched on comm, else on the cmdline;
\* "none" for None
match_process(e) ==
    IF e.comm = "gone" THEN "none"
    ELSE IF e.comm # "none" THEN e.comm
    ELSE IF e.cmdline = "gone" THEN "none"
    ELSE e.cmdline

\* `f"{cls}.slice" in current_cg`: a substring test on the cgroup path, which
\* a slice whose name ends with the class name passes too
InClassSlice(cls, cg) == cg = cls \/ (cls = "tools" /\ cg = "mytools")

\* a scan that never takes a nice value for the target
AlreadyEnforcedSlicesOnly(e, cls, scheduler) ==
    scheduler = "cfs" /\ InClassSlice(cls, e.cg)

\* the two `continue` tests of scan_and_classify: the process is in the slice
\* of its class (CFS), or has the nice value of its class (PDS / BMQ)
AlreadyEnforced(e, cls, scheduler) ==
    IF scheduler = "cfs" THEN InClassSlice(cls, e.cg)
    ELSE e.nice = ClassNice(cls)

\* the entry after a successful move_pid_to_slice or set_pid_nice
Enforced(e, cls, scheduler) ==
    IF scheduler = "cfs" THEN [e EXCEPT !.cg = cls]
    ELSE [e EXCEPT !.nice = ClassNice(cls)]

\* the loop of scan_and_classify over the entries still to visit; fails are
\* the PIDs whose move or renice fails (the helper returns False); the result
\* holds the applied list, the PIDs whose action failed, and the entries as
\* the scan leaves them
RECURSIVE ScanProcs(_, _, _, _)
ScanProcs(entries, scheduler, fails, acc) ==
    IF entries = <<>> THEN acc
    ELSE LET e == Head(entries)
             cls == match_process(e)
             skip == [acc EXCEPT !.table = Append(@, e)]
         IN  IF ~e.digit \/ e.owner # "own" \/ cls = "none"
                  \/ AlreadyEnforced(e, cls, scheduler)
             THEN ScanProcs(Tail(entries), scheduler, fails, skip)
             ELSE IF e.pid \in fails
             THEN ScanProcs(Tail(entries), scheduler, fails,
                            [skip EXCEPT !.failed = @ \cup {e.pid}])
             ELSE ScanProcs(Tail(entries), scheduler, fails,
                            [acc EXCEPT !.applied = Append(@, <<e.pid, cls>>),
                                        !.table = Append(@, Enforced(e, cls, scheduler))])

\* scan_and_classify(rules, scheduler) over a readable /proc
scan_and_classify(entries, scheduler, fails) ==
    ScanProcs(entries, scheduler, fails, [applied |-> <<>>, failed |-> {}, table |-> <<>>])

\* two rounds of the `while True:` loop of run_loop: run_once, the sleep, and
\* run_once again on the processes as the first scan left them
run_loop_twice(entries, scheduler, fails1, fails2) ==
    LET first == scan_and_classify(entries, scheduler, fails1)
    IN  [first |-> first,
         second |-> scan_and_classify(first.table, scheduler, fails2)]

CallRunLoopTwice ==
    CallReturns("run_loop_twice",
                run_loop_twice(call.entries, call.scheduler, call.fails1, call.fails2))

\* ------------------------------------------------------------ telemetry recorder
\* xplane_telemetry.py: main() subscribes, installs its signal handlers, and
\* records one row per packet until `running` is cleared or the duration is
\* over.  The positions of main(): "subscribe" (the first subscribe, before
\* the handlers are installed), "loop" (the test of `while running:`), "recv"
\* (in recv_update, at most 3 s), "resubscribe" (in the retry loop of
\* subscribe called by resubscribe), "close", "done", and "killed" (ended by a
\* signal with its default disposition).

\* `RESUBSCRIBE_AFTER = 3`
RESUBSCRIBE_AFTER == 3

\* the caps of the counters that the code leaves unbounded
MaxAttempt == 3
MaxSamples == 2

allButRecorder == <<pc, clockVars, loopVars, faults, snapVars, sinkVars, tickVars,
                    intr_at, gpuVars, procEnv, procVars, fileVars, bgVars, teardown,
                    fault_cap, recorded, summary, telem_read, calcVars>>

\* one pass of the retry loop of subscribe(wait=True): the packets are sent
\* and _recv_one either gets a packet (return True) or times out, and then
\* the loop sleeps for the backoff and goes round again
SubscribePass(at, next) ==
    /\ xp_pc = at
    /\ IF xplane_up
         THEN /\ xp_pc' = next
              /\ attempt' = 0
         ELSE /\ xp_pc' = at
              /\ attempt' = IF attempt < MaxAttempt THEN attempt + 1 ELSE attempt

\* `xp.subscribe(args.rate, wait=True)` of main(), followed by `running =
\* True`, the handlers and start_time
Subscribe ==
    /\ SubscribePass("subscribe", "loop")
    /\ UNCHANGED <<running, consecutive_timeouts, samples, duration_over,
                   xplane_up, allButRecorder>>

\* `while running:` and `if elapsed >= args.duration: break`
LoopTest ==
    /\ xp_pc = "loop"
    /\ xp_pc' = IF running /\ ~duration_over THEN "recv" ELSE "close"
    /\ UNCHANGED <<running, consecutive_timeouts, attempt, samples, duration_over,
                   xplane_up, allButRecorder>>

\* the try block of the loop: recv_update() returns with a packet and the row
\* is written (write_ok), or writing raises and `except Exception` sleeps; or
\* recv_update() times out, and the third timeout in a row calls resubscribe()
RecvUpdate(write_ok) ==
    /\ xp_pc = "recv"
    /\ IF xplane_up
         THEN /\ consecutive_timeouts' = 0
              /\ samples' = IF write_ok /\ samples < MaxSamples THEN samples + 1
                            ELSE samples
              /\ xp_pc' = "loop"
         ELSE /\ write_ok
              /\ samples' = samples
              /\ IF consecutive_timeouts + 1 >= RESUBSCRIBE_AFTER
                   THEN /\ consecutive_timeouts' = consecutive_timeouts + 1
                        /\ xp_pc' = "resubscribe"
                   ELSE /\ consecutive_timeouts' = consecutive_timeouts + 1
                        /\ xp_pc' = "loop"
    /\ UNCHANGED <<running, attempt, duration_over, xplane_up, allButRecorder>>

\* resubscribe(): `return self.subscribe(self._freq, wait=True)`, then
\* `consecutive_timeouts = 0; continue`
Resubscribe ==
    /\ SubscribePass("resubscribe", "loop")
    /\ consecutive_timeouts' = IF xp_pc' = "loop" THEN 0 ELSE consecutive_timeouts
    /\ UNCHANGED <<running, samples, duration_over, xplane_up, allButRecorder>>

\* `xp.close()`: unsubscribe_all(), sock.close(); then main() prints and returns
XpClose ==
    /\ xp_pc = "close"
    /\ xp_pc' = "done"
    /\ UNCHANGED <<running, consecutive_timeouts, attempt, samples, duration_over,
                   xplane_up, allButRecorder>>

\* SIGINT or SIGTERM: before the handlers are installed the default
\* disposition ends the process; after that the handler clears `running`
\* and the interrupted call goes on
handle_signal ==
    /\ xp_pc \in {"subscribe", "loop", "recv", "resubscribe", "close"}
    /\ IF xp_pc = "subscribe"
         THEN xp_pc' = "killed" /\ running' = running
         ELSE xp_pc' = xp_pc /\ running' = FALSE
    /\ UNCHANGED <<consecutive_timeouts, attempt, samples, duration_over,
                   xplane_up, allButRecorder>>

\* time passes: the duration given with -d, counted from start_time, is over
DurationElapses ==
    /\ xp_pc \in {"loop", "recv", "resubscribe"}
    /\ ~duration_over
    /\ duration_over' = TRUE
    /\ UNCHANGED <<xp_pc, running, consecutive_timeouts, attempt, samples,
                   xplane_up, allButRecorder>>

\* X-Plane starts or stops answering
XPlaneToggles ==
    /\ xp_pc \in {"subscribe", "loop", "recv", "resubscribe"}
    /\ xplane_up' = ~xplane_up
    /\ UNCHANGED <<xp_pc, running, consecutive_timeouts, attempt, samples,
                   duration_over, allButRecorder>>

\* ------------------------------------------------------------ specifications
\* The whole run of main(), with healthy sources: start-up with its fatal
\* failures, the loop, cancellation at any position, teardown.
Next ==
    \/ \E ok \in BOOLEAN : Mkdir(ok)
    \/ \E o \in {"disabled", "nvml", "smi", "amd", "none"} : InitGpu(o)
    \/ \E l \in BOOLEAN : StartTelemetry(l)
    \/ \E l, a \in BOOLEAN : StartGpuMonitor(l, a)
    \/ \E ok \in BOOLEAN : OpenStream(ok)
    \/ \E ok \in BOOLEAN : Prelude(ok)
    \/ WithExitExc
    \/ LoopExit
    \/ \E d \in {20, 500} : LoopHead(d, 0)
    \/ CpuSample(TRUE)
    \/ DiskSample(TRUE)
    \/ MemSample(TRUE)
    \/ IrqSample(TRUE, TRUE)
    \/ GpuSample(TRUE, "ok", TRUE)
    \/ VmstatSample(TRUE)
    \/ PsiSample(TRUE)
    \/ FreqSample(TRUE)
    \/ ProcScan(TRUE)
    \/ ProcRead(0)
    \/ EndTick
    \/ Signal
    \/ TelemExits
    \/ WithExit
    \/ \E how \in {"term", "kill", "later"}, x \in BOOLEAN : StopTelemetry(how, x)
    \/ TelemDies
    \/ StopGpuMonitor
    \/ PrintSummary
    \/ CorrelateXplane

Spec == Init /\ [][Next]_vars

\* The state in which collect() is entered: the nine streams are open, the
\* GPU backend is the one init_gpu chose, no background subprocess was asked for.
CollectEntryCap(backends, tables, cap) ==
    /\ pc = "prelude"
    /\ mono = Boot /\ wall = 0
    /\ start = 0 /\ now_mono = 0
    /\ prev_time = 0 /\ last_slow = 0 /\ last_proc_scan = 0
    /\ sample_count = 0 /\ irq_sample_count = 0
    /\ iter = 0 /\ faults = 0 /\ slow_mark = 0
    /\ prev_at = [s \in Snapshots |-> 0]
    /\ curr_ctxt_at = -1 /\ prev_ctxt_at = 0
    /\ rows = [s \in Streams |-> 0]
    /\ stats = [f \in Families |-> 0]
    /\ tick_tried = {} /\ tick_ok = {} /\ tick_wrote = {}
    /\ intr_at = ""
    /\ gpu_backend \in backends
    /\ use_nvml = (gpu_backend = Nvml)
    /\ nvml_fail_count = 0
    /\ nvml_hist = <<>> /\ gpu_path = {}
    /\ proc_alive \in tables
    /\ proc_gen = [p \in Pids |-> IF proc_alive[p] THEN 1 ELSE 0]
    /\ tracked_pids = [p \in Pids |-> 0]
    /\ prev_proc = [p \in Pids |-> 0]
    /\ proc_none = {}
    /\ proc_delta = [p \in Pids |-> <<0, 0>>]
    /\ n_opened = Len(StreamOrder) /\ close_calls = 0
    /\ telem = "none" /\ gpu_mon = "none" /\ gpu_mon_handle = FALSE
    /\ teardown = <<>>
    /\ fault_cap = cap
    /\ recorded = [f \in Families |-> 0]
    /\ summary = [f \in Families |-> ""]
    /\ telem_read = ""
    /\ RecorderOff
    /\ call = NoCall /\ ret = NoRet

CollectEntry(backends, tables) == CollectEntryCap(backends, tables, MaxFaults)

\* collect() under failing sources and an irregular clock: the scheduler
InitSched == CollectEntry({Smi}, {[p \in Pids |-> TRUE]})

NextSched ==
    \/ Prelude(TRUE)
    \/ LoopExit
    \/ \E d \in SleepSteps, j \in WallJumps : LoopHead(d, j)
    \/ \E ok \in BOOLEAN : CpuSample(ok)
    \/ \E ok \in BOOLEAN : DiskSample(ok)
    \/ \E ok \in BOOLEAN : MemSample(ok)
    \/ \E ok, some \in BOOLEAN : IrqSample(ok, some)
    \/ \E smi \in {"ok", "empty", "fail"}, parses \in BOOLEAN : GpuSample(TRUE, smi, parses)
    \/ \E ok \in BOOLEAN : VmstatSample(ok)
    \/ \E ok \in BOOLEAN : PsiSample(ok)
    \/ \E ok \in BOOLEAN : FreqSample(ok)
    \/ \E ok \in BOOLEAN : ProcScan(ok)
    \/ \E r \in Pids \cup {0} : ProcRead(r)
    \/ EndTick

SpecSched == InitSched /\ [][NextSched]_vars

\* collect() with every GPU backend and every outcome of its queries
InitGpuRun == CollectEntry({Disabled, Nvml, Smi, Amd, NoGpu}, {[p \in Pids |-> FALSE]})

NextGpu ==
    \/ Prelude(TRUE)
    \/ LoopExit
    \/ \E d \in {20, 100, 500} : LoopHead(d, 0)
    \/ CpuSample(TRUE)
    \/ DiskSample(TRUE)
    \/ MemSample(TRUE)
    \/ IrqSample(TRUE, TRUE)
    \/ \E nv, parses \in BOOLEAN, smi \in {"ok", "empty", "fail"} : GpuSample(nv, smi, parses)
    \/ VmstatSample(TRUE)
    \/ PsiSample(TRUE)
    \/ FreqSample(TRUE)
    \/ ProcScan(TRUE)
    \/ ProcRead(0)
    \/ EndTick

SpecGpu == InitGpuRun /\ [][NextGpu]_vars

\* collect() over a changing process table
InitProcRun == CollectEntry({Disabled}, [Pids -> BOOLEAN])

NextProc ==
    \/ Prelude(TRUE)
    \/ LoopExit
    \/ \E d \in {100, 500} : LoopHead(d, 0)
    \/ CpuSample(TRUE)
    \/ DiskSample(TRUE)
    \/ MemSample(TRUE)
    \/ IrqSample(TRUE, TRUE)
    \/ GpuSample(TRUE, "ok", TRUE)
    \/ VmstatSample(TRUE)
    \/ PsiSample(TRUE)
    \/ FreqSample(TRUE)
    \/ \E ok \in BOOLEAN : ProcScan(ok)
    \/ \E r \in Pids \cup {0} : ProcRead(r)
    \/ EndTick
    \/ \E p \in Pids : ProcStart(p)
    \/ \E p \in Pids : ProcExit(p)

SpecProc == InitProcRun /\ [][NextProc]_vars

\* what one pass through the loop head may take when the run is followed to
\* its end: <<monotonic time, step of the wall clock>>.  A pass of 20 ms in
\* which the wall clock is set forward is rejected by the floor; a stall of
\* 5 s is accepted and due for the slow tier.
EndSteps == {<<2, 700>>, <<500, 0>>}

\* collect() followed to its end: every source may fail on every tick (the
\* disk, interrupt, PSI and frequency reads always do), and the main thread,
\* which nothing blocks, always takes its next step
InitEnd == CollectEntryCap({Smi}, {[p \in Pids |-> FALSE]}, MaxFaultsAll)

NextEnd ==
    \/ Prelude(TRUE)
    \/ LoopExit
    \/ \E s \in EndSteps : LoopHead(s[1], s[2])
    \/ \E ok \in BOOLEAN : CpuSample(ok)
    \/ DiskSample(FALSE)
    \/ \E ok \in BOOLEAN : MemSample(ok)
    \/ IrqSample(FALSE, TRUE)
    \/ \E smi \in {"ok", "fail"} : GpuSample(TRUE, smi, TRUE)
    \/ \E ok \in BOOLEAN : VmstatSample(ok)
    \/ PsiSample(FALSE)
    \/ FreqSample(FALSE)
    \/ \E ok \in BOOLEAN : ProcScan(ok)
    \/ ProcRead(0)
    \/ EndTick

SpecEnd == InitEnd /\ [][NextEnd]_vars /\ WF_vars(NextEnd)

\* The functions of the report and of the delta computations, each applied
\* once to arguments drawn from the sets below.
\* three readings of a cpu line: a base, a later one, and one after a reset
CpuReadings ==
    {<<10, 0, 5, 100, 2, 1, 1, 0, 0, 0>>,
     <<13, 1, 7, 120, 3, 1, 2, 0, 1, 0>>,
     <<1, 0, 1, 3, 0, 0, 0, 0, 0, 0>>}
\* snapshots of /proc/stat: a line may be missing from one of them
CpuSnapshots == UNION {[K -> CpuReadings] : K \in SUBSET CpuKeys}

\* readings of one device: a base, a busy interval later, a queue that was
\* full for much longer than the interval, and the counters after a reset
DiskReading(r, w, sr, sw, mr, mw, wio, inflight) ==
    [reads |-> r, writes |-> w, sectors_read |-> sr, sectors_written |-> sw,
     ms_reading |-> mr, ms_writing |-> mw, weighted_ms_io |-> wio,
     ios_in_progress |-> inflight]
DiskReadings ==
    {DiskReading(100, 50, 8000, 4000, 200, 100, 300, 0),
     DiskReading(150, 50, 108000, 4000, 260, 100, 400, 2),
     DiskReading(400, 90, 208000, 9000, 9000, 700, 90000, 7),
     DiskReading(3, 1, 24, 8, 2, 1, 3, 0)}
\* snapshots of /proc/diskstats: a device may be missing from one of them
DiskSnapshots == UNION {[K -> DiskReadings] : K \in SUBSET {"sda", "nvme0n1"}}

\* runs of five ticks for one device whose sectors_written counter moves by
\* incs[i] on tick i: 2048 sectors over a second of 0.2 s ticks, spread as
\* evenly as whole sectors allow, or all at once, or in two bursts; 2048
\* sectors on each tick of a second; 512 on each tick of a quarter second;
\* and 400 on each tick of 0.2 s
SdaWrote(sw) == [d \in {"sda"} |-> DiskReading(100, 50 + sw, 8000, 4000 + sw, 200, 100 + sw, 300, 0)]
RunTicks(dt10, incs) ==
    [i \in 1..Len(incs) |-> <<dt10, SdaWrote(SumSeq(SubSeq(incs, 1, i)))>>]
DiskRuns ==
    {RunTicks(20, <<410, 410, 410, 409, 409>>), RunTicks(20, <<409, 410, 409, 410, 410>>),
     RunTicks(20, <<2048, 0, 0, 0, 0>>), RunTicks(20, <<0, 1000, 0, 1048, 0>>),
     RunTicks(100, <<2048, 2048, 2048, 2048, 2048>>),
     RunTicks(25, <<512, 512, 512, 512, 512>>),
     RunTicks(20, <<400, 400, 400, 400, 400>>)}

\* lines of the log: the start marker with two dates that parse and with one
\* that does not, text that matches no pattern, timestamped lines of the
\* categories with details that parse or not, a timestamped line no rule
\* applies to, timestamped lines that contain the substrings of two rules,
\* and a line with bytes that are not valid text; logs of up to three of them
MarkedLine(offset, marks, details, us) ==
    [kind |-> "ts", offset |-> offset, marks |-> marks, details |-> details, us |-> us]
TsLine(offset, cat, details, us) ==
    MarkedLine(offset, IF cat = "none" THEN {} ELSE {cat}, details, us)
LogLines ==
    {[kind |-> "start", date_ok |-> TRUE, start |-> 1000],
     [kind |-> "start", date_ok |-> TRUE, start |-> 2000],
     [kind |-> "start", date_ok |-> FALSE, start |-> 0],
     [kind |-> "text"], [kind |-> "undecodable"],
     TsLine(1, "DSF", TRUE, 0), TsLine(2, "DSF", FALSE, 0),
     TsLine(3, "WEATHER", TRUE, 0), TsLine(4, "none", TRUE, 0),
     TsLine(5, "PRELOAD", TRUE, 200000), TsLine(6, "PRELOAD", TRUE, 50000),
     TsLine(7, "PRELOAD", FALSE, 0),
     MarkedLine(8, {"WEATHER", "ERROR"}, TRUE, 0),
     MarkedLine(9, {"DSF", "ERROR"}, FALSE, 0),
     MarkedLine(10, {"ERROR", "PRELOAD"}, TRUE, 200000)}
LogLists ==
    {<<>>} \cup {<<a>> : a \in LogLines} \cup {<<a, b>> : a, b \in LogLines}
           \cup {<<a, b, c>> : a, b, c \in LogLines}

\* pattern lists, and listings of /proc with up to two processes: comm and
\* cmdline with a pattern in another case, with none, or with the second
\* pattern only, and each of the four fates
PatternLists == {<<<<"X", "e">>>>, <<<<"X", "e">>, <<"l", "l">>>>}
ProcTexts == {<<"x", "E", "l">>, <<"l", "x">>, <<"e", "L", "L">>}
ProcFates == {"ok", "gone_comm", "gone_cmdline", "bad_cmdline"}
ProcListings ==
    {<<>>} \cup {<<<<1, a[1], a[2], a[3]>>>> : a \in ProcTexts \X ProcTexts \X ProcFates}
           \cup {<<<<1, a[1], a[2], a[3]>>, <<2, b[1], b[2], b[3]>>>> :
                     a, b \in ProcTexts \X ProcTexts \X ProcFates}

\* snapshots of /proc/interrupts: per line the counts of the cores, each 0
\* or 3, and the description; a line may be missing from one of them
IrqReadings == {[counts |-> c, desc |-> "x"] : c \in [1..NUM_CPUS -> {0, 3}]}
IrqSnapshots == UNION {[K -> IrqReadings] : K \in SUBSET {"16", "NMI"}}
\* elapsed times of the slow tier, at and above the second
SlowDts == {SlowInterval, 120}
\* accepted elapsed times: the floor, the default interval, a second
AcceptedDts == {MinDt, 20, 100}

\* rows <<ts, val>> of a metric file and events <<ts, category>> of the log
CsvRows == {<<100, 60>>, <<100, 40>>, <<104, 50>>}
RowLists == {<<>>} \cup {<<a>> : a \in CsvRows} \cup {<<a, b>> : a, b \in CsvRows}
EventLists ==
    {<<>>, <<<<101, "DSF">>>>, <<<<102, "DSF">>>>, <<<<105, "ERROR">>>>,
     <<<<101, "DSF">>, <<105, "ERROR">>>>, <<<<102, "DSF">>, <<105, "ERROR">>>>,
     <<<<98, "AIRPORT">>, <<101, "DSF">>, <<105, "ERROR">>>>,
     <<<<97, "AIRPORT">>, <<107, "ERROR">>>>}
Windows == {2, 3}

\* hits <<csv_ts in tenths of a second, val>>
Hits == {<<1001, 90>>, <<1002, 80>>, <<1050, 70>>, <<1005, 60>>, <<1015, 50>>}
HitLists ==
    {<<>>} \cup {<<a>> : a \in Hits} \cup {<<a, b>> : a, b \in Hits}
           \cup {<<a, b, c>> : a, b, c \in Hits}
MaxHitsValues == {1, 2, 3}

\* lists of n values: increasing, decreasing, scrambled with repeats, constant
ValueLists ==
    UNION {{[i \in 1..n |-> i], [i \in 1..n |-> n + 1 - i],
            [i \in 1..n |-> (i * 7) % 5], [i \in 1..n |-> 4]} : n \in 1..MaxLen}

\* events <<ts, category, message>> of the log, inside and outside the
\* windows of the runs below, one with a quoted word in its message
XpEvents ==
    {<<94, "DSF", <<"a">>>>, <<95, "AIRPORT", <<"\"", "b", "\"">>>>,
     <<101, "DSF", <<"a">>>>, <<107, "ERROR", <<"c">>>>,
     <<108, "WEATHER", <<"d">>>>}
XpEventLists ==
    {<<>>} \cup {<<a>> : a \in XpEvents} \cup {<<a, b>> : a, b \in XpEvents}
           \cup {<<<<107, "ERROR", <<"c">>>>, <<108, "WEATHER", <<"d">>>>, a>> :
                     a \in XpEvents}
\* runs <<mon_start, elapsed>> and the start time parsed from the log
XpRuns == {<<100, 0>>, <<100, 2>>}
XpStarts == {0, 90}
XpCsvRows == {<<>>, <<<<100, 40>>>>, <<<<100, 60>>>>}

\* entries of /proc for cgwatcher: processes of the user that match a class
\* by comm or by cmdline and are or are not where the class wants them, a
\* process in a slice whose name ends with the class name, a process of
\* another user, a name that is not a number, entries that vanish, and a
\* process no rule matches; listings of up to two of them
ProcEntry(digit, owner, comm, cmdline, cg, nice) ==
    [digit |-> digit, owner |-> owner, comm |-> comm, cmdline |-> cmdline,
     cg |-> cg, nice |-> nice, pid |-> 0]
ProcKinds ==
    {ProcEntry(TRUE, "own", "simulator", "none", "app", 0),
     ProcEntry(TRUE, "own", "none", "streamer", "streamer", 0),
     ProcEntry(TRUE, "own", "tools", "none", "mytools", 5),
     ProcEntry(TRUE, "own", "tools", "simulator", "simulator", 0),
     ProcEntry(TRUE, "other", "simulator", "none", "app", 0),
     ProcEntry(FALSE, "own", "simulator", "none", "app", 5),
     ProcEntry(TRUE, "gone", "simulator", "none", "app", 5),
     ProcEntry(TRUE, "own", "gone", "streamer", "app", 0),
     ProcEntry(TRUE, "own", "none", "gone", "app", 0),
     ProcEntry(TRUE, "own", "none", "none", "app", 0)}
ProcTables ==
    {<<>>} \cup {<<[a EXCEPT !.pid = 1]>> : a \in ProcKinds}
           \cup {<<[a EXCEPT !.pid = 1], [b EXCEPT !.pid = 2]>> : a, b \in ProcKinds}

Calls ==
    {[fn |-> "cpu_delta", prev |-> a, curr |-> b] : a, b \in CpuSnapshots}
    \cup {[fn |-> "diskstat_delta", prev |-> a[1], curr |-> a[2], dt |-> a[3]] :
             a \in DiskSnapshots \X DiskSnapshots \X AcceptedDts}
    \cup {[fn |-> "correlate_events", csv_rows |-> a[1], events |-> a[2],
           threshold |-> 50, window |-> a[3]] : a \in RowLists \X EventLists \X Windows}
    \cup {[fn |-> "print_correlation_hits", hits |-> a[1], max_hits |-> a[2]] :
             a \in HitLists \X MaxHitsValues}
    \cup {[fn |-> a[1], lst |-> a[2]] : a \in {"fmt3", "p95"} \X ValueLists}
    \cup {[fn |-> "interrupt_delta", prev |-> a, curr |-> b] : a, b \in IrqSnapshots}
    \cup {[fn |-> "irq_rows", prev |-> a[1], curr |-> a[2], slow_dt |-> a[3]] :
             a \in IrqSnapshots \X IrqSnapshots \X SlowDts}
    \cup {[fn |-> "disk_run", prev |-> SdaWrote(0), ticks |-> t] : t \in DiskRuns}
    \cup {[fn |-> "parse_xplane_log", lines |-> l] : l \in LogLists}
    \cup {[fn |-> "run_loop_twice", entries |-> a[1], scheduler |-> a[2],
           fails1 |-> a[3], fails2 |-> a[4]] :
             a \in ProcTables \X {"cfs", "pds", "bmq"} \X (SUBSET {1, 2}) \X {{}, {1, 2}}}
    \cup {[fn |-> "find_tracked_procs", patterns |-> a[1], entries |-> a[2]] :
             a \in PatternLists \X ProcListings}
    \cup {[fn |-> "correlate_xplane", found |-> a[1], xp_start |-> a[2],
           xp_events |-> a[3], mon_start |-> a[4][1], elapsed |-> a[4][2],
           csv_rows |-> a[5]] :
             a \in BOOLEAN \X XpStarts \X XpEventLists \X XpRuns \X XpCsvRows}

InitCalc ==
    /\ pc = "call"
    /\ mono = Boot /\ wall = 0
    /\ start = 0 /\ now_mono = 0
    /\ prev_time = 0 /\ last_slow = 0 /\ last_proc_scan = 0
    /\ sample_count = 0 /\ irq_sample_count = 0
    /\ iter = 0 /\ faults = 0 /\ slow_mark = 0
    /\ prev_at = [s \in Snapshots |-> 0]
    /\ curr_ctxt_at = -1 /\ prev_ctxt_at = 0
    /\ rows = [s \in Streams |-> 0]
    /\ stats = [f \in Families |-> 0]
    /\ tick_tried = {} /\ tick_ok = {} /\ tick_wrote = {}
    /\ intr_at = ""
    /\ use_nvml = FALSE /\ nvml_fail_count = 0 /\ gpu_backend = Uninit
    /\ nvml_hist = <<>> /\ gpu_path = {}
    /\ proc_alive = [p \in Pids |-> FALSE]
    /\ proc_gen = [p \in Pids |-> 0]
    /\ tracked_pids = [p \in Pids |-> 0]
    /\ prev_proc = [p \in Pids |-> 0]
    /\ proc_none = {}
    /\ proc_delta = [p \in Pids |-> <<0, 0>>]
    /\ n_opened = 0 /\ close_calls = 0
    /\ telem = "none" /\ gpu_mon = "none" /\ gpu_mon_handle = FALSE
    /\ teardown = <<>>
    /\ fault_cap = MaxFaults
    /\ recorded = [f \in Families |-> 0]
    /\ summary = [f \in Families |-> ""]
    /\ telem_read = ""
    /\ RecorderOff
    /\ call \in Calls
    /\ ret = NoRet

NextCalc ==
    \/ CallCpuDelta
    \/ CallDiskstatDelta
    \/ CallCorrelateEvents
    \/ CallPrintCorrelationHits
    \/ CallFmt3
    \/ CallP95
    \/ CallCorrelateXplane
    \/ CallInterruptDelta
    \/ CallIrqRows
    \/ CallDiskRun
    \/ CallParseXplaneLog
    \/ CallRunLoopTwice
    \/ CallFindTrackedProcs

SpecCalc == InitCalc /\ [][NextCalc]_vars

\* The telemetry recorder on its own, with X-Plane answering or not and
\* signals at any time.  A step of the recorder that is possible again and
\* again is taken (a pass of the retry loop succeeds if X-Plane keeps coming
\* back); nothing is assumed about X-Plane, signals or the clock.
InitTelem ==
    /\ pc = "telemetry"
    /\ mono = Boot /\ wall = 0
    /\ start = 0 /\ now_mono = 0
    /\ prev_time = 0 /\ last_slow = 0 /\ last_proc_scan = 0
    /\ sample_count = 0 /\ irq_sample_count = 0
    /\ iter = 0 /\ faults = 0 /\ slow_mark = 0
    /\ prev_at = [s \in Snapshots |-> 0]
    /\ curr_ctxt_at = -1 /\ prev_ctxt_at = 0
    /\ rows = [s \in Streams |-> 0]
    /\ stats = [f \in Families |-> 0]
    /\ tick_tried = {} /\ tick_ok = {} /\ tick_wrote = {}
    /\ intr_at = ""
    /\ use_nvml = FALSE /\ nvml_fail_count = 0 /\ gpu_backend = Uninit
    /\ nvml_hist = <<>> /\ gpu_path = {}
    /\ proc_alive = [p \in Pids |-> FALSE]
    /\ proc_gen = [p \in Pids |-> 0]
    /\ tracked_pids = [p \in Pids |-> 0]
    /\ prev_proc = [p \in Pids |-> 0]
    /\ proc_none = {}
    /\ proc_delta = [p \in Pids |-> <<0, 0>>]
    /\ n_opened = 0 /\ close_calls = 0
    /\ telem = "none" /\ gpu_mon = "none" /\ gpu_mon_handle = FALSE
    /\ teardown = <<>>
    /\ fault_cap = 0
    /\ recorded = [f \in Families |-> 0]
    /\ summary = [f \in Families |-> ""]
    /\ telem_read = ""
    /\ call = NoCall /\ ret = NoRet
    /\ xp_pc = "subscribe" /\ running = TRUE
    /\ consecutive_timeouts = 0 /\ attempt = 0 /\ samples = 0
    /\ duration_over = FALSE
    /\ xplane_up \in BOOLEAN

RecorderStep ==
    \/ Subscribe
    \/ LoopTest
    \/ \E write_ok \in BOOLEAN : RecvUpdate(write_ok)
    \/ Resubscribe
    \/ XpClose

NextTelem ==
    \/ RecorderStep
    \/ handle_signal
    \/ DurationElapses
    \/ XPlaneToggles

SpecTelem == InitTelem /\ [][NextTelem]_vars /\ SF_vars(RecorderStep)

\* ------------------------------------------------------------ claims
\* the sources that are due in the current tick
DueSources == IF SlowDue(now_mono, last_slow) THEN Sources ELSE FastSources

\* C1 (as claimed): at the end of an accepted tick every due source was
\* attempted, whatever failed before it, and every source whose own read and
\* parse succeeded has written its rows.
C1_SourcesIsolated ==
    pc = "tick_end" => (DueSources \subseteq tick_tried /\ tick_ok \subseteq tick_wrote)

\* C2: a loop iteration whose elapsed monotonic time is below the floor ends
\* at once and changes no row, no statistics list, no previous snapshot, and
\* none of prev_time, last_slow, last_proc_scan, sample_count.
C2_RejectedTickNoOp ==
    [][(pc = "loop" /\ iter' = iter + 1 /\ now_mono' - prev_time < MinDt)
         => (/\ pc' = "loop"
             /\ UNCHANGED <<rows, stats, prev_at, curr_ctxt_at, prev_ctxt_at,
                            prev_time, last_slow, last_proc_scan, sample_count,
                            irq_sample_count, tick_tried, tick_ok, tick_wrote,
                            tracked_pids, prev_proc, gpuVars>>)]_vars

\* a rejected iteration has happened after an accepted tick
C2_Witness ==
    /\ pc = "loop"
    /\ sample_count > 0
    /\ iter > sample_count
    /\ now_mono - prev_time \in 1..(MinDt - 1)

\* three direct queries in a row have failed
ThreeFails ==
    /\ Len(nvml_hist) = NVML_FAIL_MAX
    /\ \A i \in 1..Len(nvml_hist) : ~nvml_hist[i]

\* the backend is subprocess-active after a failover
SubprocessActive == gpu_backend = Fallback /\ ~use_nvml

\* C3: once three direct queries in a row have failed the backend is
\* subprocess-active, it stays so in every later step, and no later query
\* uses the direct binding.
C3_FailoverOneWay ==
    [][ThreeFails => (/\ SubprocessActive
                      /\ SubprocessActive'
                      /\ pc = "gpu" => "nvml" \notin gpu_path')]_vars

\* after the failover a query went to the subprocess only, and failed
C3_Witness ==
    /\ ThreeFails
    /\ SubprocessActive
    /\ pc = "vmstat"
    /\ gpu_path = {"smi"}
    /\ rows["vram"] = 0

\* the number of failures at the end of the direct queries' history
RECURSIVE TrailingFails(_)
TrailingFails(h) ==
    IF h = <<>> \/ h[Len(h)] THEN 0
    ELSE 1 + TrailingFails(SubSeq(h, 1, Len(h) - 1))

\* C4: in a run that started on the direct binding the failure counter is
\* the number of direct queries that failed since the last success, and the
\* backend has switched exactly when that number reached three.
C4_CounterIsConsecutive ==
    gpu_backend \in {Nvml, Fallback} =>
        /\ nvml_fail_count = TrailingFails(nvml_hist)
        /\ (gpu_backend = Fallback) <=> (TrailingFails(nvml_hist) = NVML_FAIL_MAX)
        /\ use_nvml <=> (gpu_backend = Nvml)

\* two failures with a success between them, and the direct binding still in use
C4_Witness ==
    /\ nvml_hist = <<FALSE, TRUE, FALSE>>
    /\ nvml_fail_count = 1
    /\ use_nvml

\* C5 (as claimed): a cancellation that arrives inside a tick lets the tick
\* finish: when the loop has been left, every source due in that tick was attempted.
C5_TickFinishedOnCancel ==
    intr_at \in TickPcs => DueSources \subseteq tick_tried

\* the teardown steps in the order main() runs them
TeardownOrder == <<"close", "stop_telem", "stop_gpumon", "report", "correlate">>

\* position of a step in the teardown so far (0 = not run)
StepAt(step) ==
    IF \E i \in 1..Len(teardown) : teardown[i] = step
    THEN CHOOSE i \in 1..Len(teardown) : teardown[i] = step
    ELSE 0

\* C6 (as claimed): the streams are closed only after both background
\* activities were stopped, and the report and the correlation come last.
C6_StopsBeforeClose ==
    (pc \in TeardownPcs \cup {"done"} /\ StepAt("close") # 0) =>
        /\ StepAt("stop_telem") # 0 /\ StepAt("stop_telem") < StepAt("close")
        /\ StepAt("stop_gpumon") # 0 /\ StepAt("stop_gpumon") < StepAt("close")

\* C6 (amended): the streams are closed first, then the telemetry stop step
\* and the log-tailer stop step run, then the report, then the correlation;
\* a run that reaches its end has run all five.
C6_TeardownOrder ==
    /\ Len(teardown) <= Len(TeardownOrder)
    /\ teardown = SubSeq(TeardownOrder, 1, Len(teardown))
    /\ pc = "stop_telem" => teardown = SubSeq(TeardownOrder, 1, 1)
    /\ pc = "report" => teardown = SubSeq(TeardownOrder, 1, 3)
    /\ pc = "done" => teardown = TeardownOrder

\* a run with both background subprocesses came to its end and stopped both
C6_Witness ==
    /\ pc = "done"
    /\ teardown = TeardownOrder
    /\ telem = "exited"
    /\ gpu_mon = "exited"

\* C7 (as claimed): however the run ends, every stream that was opened has
\* been closed, and close() never runs twice.
C7_OpenedIsClosedOnce ==
    /\ close_calls <= 1
    /\ (pc \in FinalPcs /\ n_opened > 0) => close_calls = 1

\* C8 (as claimed): a row of proc.csv is a delta between two readings of the
\* same process; the reading of a process that is gone is never the previous side.
C8_NoStaleReading ==
    \A p \in Pids : proc_delta[p] = <<0, 0>> \/ proc_delta[p][1] = proc_delta[p][2]

\* C9: a PID whose read returned None in a slow tick is, at the end of that
\* tick, neither tracked nor in the stored readings, and has no row.
C9_GonePidDropped ==
    pc = "tick_end" =>
        \A p \in proc_none :
            /\ tracked_pids[p] = 0
            /\ prev_proc[p] = 0
            /\ proc_delta[p] = <<0, 0>>

\* a tracked PID was dropped in a later tick that did not rescan
C9_Witness ==
    /\ pc = "tick_end"
    /\ proc_none # {}
    /\ last_proc_scan # now_mono
    /\ sample_count > 0

\* C10: the slow tier is entered exactly on the accepted ticks that are at
\* least a second (monotonic) after the previous slow tick or the loop
\* start, wherever the wall clock stands.
C10_SlowGate ==
    /\ pc \in {"irq", "gpu", "vmstat", "psi", "freq", "proc", "proc_read"}
         => now_mono - last_slow >= SlowInterval
    /\ pc = "irq" => now_mono - slow_mark >= SlowInterval
    /\ (pc = "tick_end" /\ "irq" \notin tick_tried) => now_mono - slow_mark < SlowInterval
    /\ (pc = "tick_end" /\ "irq" \in tick_tried) => slow_mark = now_mono

\* a slow tick exactly one second after the previous one, the wall clock
\* having jumped ahead of the monotonic clock
C10_Witness ==
    /\ pc = "irq"
    /\ sample_count > 0
    /\ now_mono - slow_mark = SlowInterval
    /\ (wall - start) - (mono - Boot) >= 700

\* a field fills a column when it is the column's quantity or a literal zero
\* standing in for a quantity the path cannot deliver
FillsColumn(field, col) == field = col \/ field = "0"

\* C11 (as claimed): a row written to vram.csv has 13 fields and every field
\* is the quantity of its column in the header, from whichever path the row came.
C11_SameShape ==
    (pc = "vmstat" /\ rows["vram"] > 0) =>
        /\ Len(RowFields(RowPath)) = Len(VramHeader)
        /\ \A i \in 1..Len(VramHeader) : FillsColumn(RowFields(RowPath)[i], VramHeader[i])

\* C12 (as claimed): in a run whose GPU initialization found no backend, no
\* row is ever written to vram.csv.
C12_UnavailableNoRow ==
    gpu_backend = NoGpu => rows["vram"] = 0

\* C18 (as claimed): in the printed report no statistics family with fewer
\* than two recorded values is shown with figures (mean, min, max or p95).
C18_NoFiguresBelowTwo ==
    pc \in {"correlate", "done"} =>
        \A f \in Families : Recorded(f) < MinValues => summary[f] # "figures"

\* C19: the sampling loop terminates: when the main thread keeps taking its
\* steps, collect() leaves the loop, whichever ticks the floor rejects and
\* whichever sources fail.
C19_LoopTerminates == <>(pc = "collected")

\* the loop was left after a rejected tick and one tick in which every source
\* failed or came back empty
C19_Witness ==
    /\ pc = "collected"
    /\ iter = 2 /\ sample_count = 1
    /\ tick_tried = Sources
    /\ tick_ok = {}
    /\ wall - start >= Duration

\* C20 (as claimed): main reads xplane_telemetry.csv only when the telemetry
\* subprocess has exited.
C20_ReadAfterExit == telem_read # "killed"

\* a computed number is zero / is not negative / is at most k; a division
\* that would raise is none of these
IsZero(x) == x[2] # 0 /\ x[1] = 0
NonNegative(x) == (x[2] > 0 /\ x[1] >= 0) \/ (x[2] < 0 /\ x[1] <= 0)
AtMost(x, k) == (x[2] > 0 /\ x[1] <= k * x[2]) \/ (x[2] < 0 /\ x[1] >= k * x[2])

\* C13 (as claimed): for every pair of disk snapshots and every accepted dt
\* the io_util_pct of diskstat_delta lies in [0, 100].
C13_UtilClamped ==
    (call.fn = "diskstat_delta" /\ ret.done) =>
        \A dev \in DOMAIN ret.val :
            /\ NonNegative(ret.val[dev]["io_util_pct"])
            /\ AtMost(ret.val[dev]["io_util_pct"], 100)

\* C14: where the two snapshots of a cpu line or of a device have identical
\* counters, every percentage of cpu_delta and every rate, latency and
\* utilization of diskstat_delta is exactly 0, and no division by zero occurs.
C14_ZeroDeltaZeroOutput ==
    /\ (call.fn = "cpu_delta" /\ ret.done) =>
           \A k \in DOMAIN ret.val :
               call.prev[k] = call.curr[k] =>
                   \A m \in CpuMetrics : IsZero(ret.val[k][m])
    /\ (call.fn = "diskstat_delta" /\ ret.done) =>
           \A dev \in DOMAIN ret.val :
               (\A c \in DiskCounters : call.prev[dev][c] = call.curr[dev][c]) =>
                   \A m \in DiskMetrics : IsZero(ret.val[dev][m])

\* cpu_delta has returned for two identical snapshots
C14_Witness ==
    /\ call.fn = "cpu_delta"
    /\ ret.done
    /\ call.prev = call.curr
    /\ DOMAIN ret.val = CpuKeys

\* the positions of the events within the window around ts
InWindow(events, ts, window) ==
    {j \in 1..Len(events) : Abs(events[j][1] - ts) <= window}

\* the positions of the rows that are at or above the threshold and have an
\* event within the window
Qualifying(csv_rows, events, threshold, window) ==
    {i \in 1..Len(csv_rows) :
        /\ csv_rows[i][2] >= threshold
        /\ InWindow(events, csv_rows[i][1], window) # {}}

C16_DedupRankTruncate ==
    (call.fn = "print_correlation_hits" /\ ret.done) =>
        LET seconds == {Round(call.hits[i][1]) : i \in 1..Len(call.hits)}
            shown == IF Cardinality(seconds) < call.max_hits
                     THEN Cardinality(seconds) ELSE call.max_hits
        IN  /\ Len(ret.val) = shown
            /\ \A i, j \in 1..Len(ret.val) :
                   i < j => /\ ret.val[i][2] >= ret.val[j][2]
                            /\ Round(ret.val[i][1]) # Round(ret.val[j][1])

\* the 95th percentile a call has returned: the result of the helper, or the
\* third figure of fmt3
ReturnedP95 == IF call.fn = "p95" THEN ret.val ELSE ret.val.p95

\* C17: the 95th-percentile helper returns the element at index
\* floor(0.95 * n) of the sorted list when n >= 21 (an element of the list
\* with at most that many values below it and more than that many at or
\* below it) and the maximum when n <= 20; for 21 increasing values it is
\* the one at index 19.
C17_P95NearestRank ==
    ((call.fn = "p95" /\ ret.done) \/ (call.fn = "fmt3" /\ ret.done /\ ret.val.shown)) =>
        LET lst == call.lst
            n == Len(lst)
            v == ReturnedP95
            below == Cardinality({i \in 1..n : lst[i] < v})
            upto == Cardinality({i \in 1..n : lst[i] <= v})
        IN  /\ \E i \in 1..n : lst[i] = v
            /\ n <= 20 => \A i \in 1..n : lst[i] <= v
            /\ n >= 21 =>
                   \E k \in 0..(n - 1) :
                       /\ 100 * k <= 95 * n /\ 95 * n < 100 * (k + 1)
                       /\ below <= k /\ upto >= k + 1
            /\ (n = 21 /\ \A i \in 1..(n - 1) : lst[i] < lst[i + 1]) => v = lst[20]

\* fmt3 has returned the value at sorted index 19 of 21 increasing values
C17_Witness ==
    /\ call.fn = "fmt3"
    /\ ret.done
    /\ Len(call.lst) = 21
    /\ \A i \in 1..20 : call.lst[i] < call.lst[i + 1]
    /\ ret.val.p95 = call.lst[20]

\* C21 (as claimed): a journalctl subprocess that _start_gpu_event_monitor
\* launched has been terminated by the time the stop step of main is over; it
\* is never still running while the report is printed or after main returns.
C21_TailerStopped ==
    pc \in {"report", "correlate", "done"} => gpu_mon # "running"

\* the number of positions of sequence q that hold x
Occurrences(q, x) == Cardinality({i \in 1..Len(q) : q[i] = x})

\* C22: when the log was found and its start marker parsed, xplane_events.csv
\* is written and holds, in ascending order of timestamp, exactly one line
\* <<timestamp, offset from the start of the run, category, message>> for
\* every parsed event with run start - 5 s <= timestamp <= run end + 5 s, and
\* no other line, whether or not the correlation found a hit.
C22_EventsExported ==
    (pc = "call" /\ call.fn = "correlate_xplane" /\ ret.done
       /\ call.found /\ call.xp_start # 0)
    => /\ ret.val.exported
       /\ \A i \in 1..(Len(ret.val.rows) - 1) :
              ret.val.rows[i][1] <= ret.val.rows[i + 1][1]
       /\ LET inside ==
                  SelectSeq(call.xp_events,
                            LAMBDA e : /\ e[1] >= call.mon_start - 5
                                       /\ e[1] <= call.mon_start + call.elapsed + 5)
              line(e) == <<e[1], e[1] - call.mon_start, e[2], MsgClean(e[3])>>
          IN  /\ Len(ret.val.rows) = Len(inside)
              /\ \A i \in 1..Len(inside) :
                     Occurrences(ret.val.rows, line(inside[i]))
                         = Occurrences(inside, inside[i])

\* three events in the log, the first and the third inside the window and
\* out of order, the second outside; no metric row crossed the threshold
C22_Witness ==
    /\ pc = "call" /\ call.fn = "correlate_xplane" /\ ret.done
    /\ call.found /\ call.xp_start # 0
    /\ Len(call.xp_events) = 3
    /\ call.xp_events[1][1] > call.xp_events[3][1]
    /\ call.xp_events[2][1] = 108
    /\ call.csv_rows # <<>>
    /\ ret.val.io_hits = <<>>
    /\ Len(ret.val.rows) = 2
    /\ ret.val.rows[1][1] < ret.val.rows[2][1]

\* a fatal start-up condition: the output directory or a stream cannot be
\* created, or one of the first reads of collect() fails
FatalStartup == Mkdir(FALSE) \/ OpenStream(FALSE) \/ Prelude(FALSE)

\* no data row in any stream, no value in any statistics list, no tick begun
NothingSampled ==
    /\ \A s \in Streams : rows[s] = 0
    /\ \A f \in Families : stats[f] = 0 /\ recorded[f] = 0
    /\ sample_count = 0 /\ irq_sample_count = 0
    /\ iter = 0 /\ tick_tried = {}

\* C23: a fatal start-up condition ends the run at once, before any sampling:
\* the step on which it occurs leaves main() (directly, or through the with
\* block's exit), and in the states an uncancelled run reaches that way no
\* data row was written to any stream and no tick was executed.
C23_FatalStartupNoSampling ==
    /\ [][FatalStartup => (pc' \in {"aborted", "exc_exit"} /\ NothingSampled')]_vars
    /\ []((pc \in {"aborted", "exc_exit", "crashed"} /\ intr_at = "") => NothingSampled)

\* the first reads of collect() failed with all nine streams open: the
\* streams were closed and the run ended with the exception
C23_Witness ==
    /\ pc = "crashed"
    /\ intr_at = ""
    /\ n_opened = Len(StreamOrder)
    /\ close_calls = 1
    /\ NothingSampled

\* C24: cpu_delta, diskstat_delta and interrupt_delta give results only for
\* keys that both snapshots have: the keys of the result lie in the
\* intersection of the two key sets, for diskstat_delta they are exactly the
\* intersection, and a key that only one snapshot has gives no entry.
C24_OnlyCommonKeys ==
    (pc = "call" /\ ret.done) =>
        /\ call.fn \in {"cpu_delta", "interrupt_delta"} =>
               DOMAIN ret.val \subseteq (DOMAIN call.prev \cap DOMAIN call.curr)
        /\ call.fn = "diskstat_delta" =>
               DOMAIN ret.val = DOMAIN call.prev \cap DOMAIN call.curr

\* cpu_delta has returned for a current snapshot with a line the previous
\* one lacks
C24_Witness ==
    /\ pc = "call" /\ call.fn = "cpu_delta" /\ ret.done
    /\ DOMAIN call.prev = {"all"}
    /\ DOMAIN call.curr = CpuKeys
    /\ DOMAIN ret.val = {"all"}

\* C25: the rows a slow tick writes to irq.csv are one for each IRQ line that
\* is in the previous and in the current interrupt snapshot and whose count
\* deltas, summed over the cores, are greater than 0, and for no other line.
C25_IrqRowsIffActive ==
    (pc = "call" /\ call.fn = "irq_rows" /\ ret.done) =>
        \A irq \in DOMAIN call.prev \cup DOMAIN call.curr :
            (\E row \in ret.val : row[1] = irq)
            <=> /\ irq \in DOMAIN call.prev
                /\ irq \in DOMAIN call.curr
                /\ SumSeq([i \in 1..NUM_CPUS |->
                              call.curr[irq].counts[i] - call.prev[irq].counts[i]]) > 0

\* one line moved forward, the other moved from one core to another with
\* the sum of its deltas 0: a row for the first only
C25_Witness ==
    /\ pc = "call" /\ call.fn = "irq_rows" /\ ret.done
    /\ DOMAIN call.prev = {"16", "NMI"} /\ DOMAIN call.curr = {"16", "NMI"}
    /\ call.prev["NMI"].counts # call.curr["NMI"].counts
    /\ {row[1] : row \in ret.val} = {"16"}

\* the tick at hand ran the slow tier
SlowTick == "irq" \in tick_tried

\* the process block of the tick at hand did not fail
ProcBlockOk == "proc" \in tick_tried => "proc" \in tick_ok

\* C26 (as claimed): the rescan does not depend on the tiers: a tick does not
\* end with 5 s or more gone since the previous rescan, unless the process
\* block itself failed on it.
C26_RescanAsSoonAsDue ==
    (pc = "tick_end" /\ ProcBlockOk) => now_mono - last_proc_scan < PROC_SCAN_INTERVAL

\* C26: the process table is rescanned inside the slow tier only.  The time
\* of the last rescan changes only in the process block of a slow tick, to
\* the monotonic time of that tick, and by at least 5 s; the process block is
\* reached on every slow tick whatever happened to the sources before it, and
\* when it did not fail the tick ends less than 5 s after the last rescan.
C26_RescanOnSlowTicks ==
    /\ [][last_proc_scan' # last_proc_scan =>
             /\ pc = "proc" /\ SlowTick
             /\ last_proc_scan' = now_mono
             /\ last_proc_scan' - last_proc_scan >= PROC_SCAN_INTERVAL]_vars
    /\ []((pc = "tick_end" /\ SlowTick) =>
             /\ "proc" \in tick_tried
             /\ ProcBlockOk => now_mono - last_proc_scan < PROC_SCAN_INTERVAL)

\* a slow tick rescanned although another source failed on it, and a
\* process tracked since an earlier rescan got its row
C26_Witness ==
    /\ pc = "tick_end"
    /\ last_proc_scan = now_mono
    /\ faults > 0 /\ tick_tried # tick_ok
    /\ \E p \in Pids : proc_delta[p] # <<0, 0>>

\* C27: between two rescans the tracked set persists.  On any step that does
\* not rescan, no PID is added and none changes its display name; a PID
\* leaves the set only in the read loop of a slow tick and only when its read
\* returned nothing on that tick; and a tracked PID the loop read with
\* success is still tracked, under the same name, after the loop.
C27_TrackedPersist ==
    [][last_proc_scan' = last_proc_scan =>
          \A p \in Pids :
              /\ tracked_pids'[p] # 0 => tracked_pids'[p] = tracked_pids[p]
              /\ (tracked_pids[p] # 0 /\ tracked_pids'[p] = 0) =>
                     (pc = "proc_read" /\ p \in proc_none' /\ ~proc_alive[p])
              /\ (pc = "proc_read" /\ tracked_pids[p] # 0 /\ prev_proc'[p] = proc_gen[p]
                    /\ proc_alive[p]) => tracked_pids'[p] = tracked_pids[p]]_vars

\* a slow tick without a rescan on which one tracked process was gone and
\* was dropped while the other was read and stayed
C27_Witness ==
    /\ pc = "tick_end"
    /\ last_proc_scan # 0 /\ last_proc_scan < now_mono
    /\ \E p, q \in Pids :
           /\ p \in proc_none /\ tracked_pids[p] = 0
           /\ tracked_pids[q] # 0 /\ prev_proc[q] # 0 /\ proc_delta[q] # <<0, 0>>

\* a computed number is exactly 1
IsOne(x) == x[2] # 0 /\ x[1] = x[2]

\* a fraction with a positive denominator in lowest terms
Lowest(x) == <<x[1] \div Gcd(Abs(x[1]), x[2]), x[2] \div Gcd(Abs(x[1]), x[2])>>

\* the sectors written on tick i of the run of `call`, and the run's length
\* in units of 10 ms
WroteOnTick(i) ==
    call.ticks[i][2]["sda"]["sectors_written"]
        - (IF i = 1 THEN call.prev ELSE call.ticks[i - 1][2])["sda"]["sectors_written"]
RunLength == SumSeq([i \in 1..Len(call.ticks) |-> call.ticks[i][1]])

\* C28: the write throughput of a tick is its delta of sectors x 512 bytes
\* / 2^20 / the elapsed seconds.  In a run of five equal ticks over one second
\* in which the write-sector counter of the one device rises by 2048, the
\* write throughput reported for the device, the average over the ticks, is
\* exactly 1.0 MB/s; and every tick on which the counter rose by 2048 sectors
\* per second reports exactly 1.0 MB/s itself.
C28_WriteThroughput ==
    /\ (pc = "call" /\ call.fn = "diskstat_delta" /\ ret.done) =>
           \A dev \in DOMAIN ret.val :
               Lowest(ret.val[dev]["wMB_per_s"])
                   = Lowest(<<(call.curr[dev]["sectors_written"]
                                 - call.prev[dev]["sectors_written"]) * 512 * 100,
                              1048576 * call.dt>>)
    /\ (pc = "call" /\ call.fn = "disk_run" /\ ret.done) =>
           /\ \A i \in 1..Len(call.ticks) :
                  WroteOnTick(i) * 100 = 2048 * call.ticks[i][1]
                      => IsOne(ret.val.wMB_per_s[i])
           /\ (/\ Len(call.ticks) = 5
               /\ \A i \in 1..5 : call.ticks[i][1] = call.ticks[1][1]
               /\ RunLength = 100
               /\ SumSeq([i \in 1..5 |-> WroteOnTick(i)]) = 2048)
                  => IsOne(ret.val.write_avg)

\* five ticks of 0.2 s, 410 or 409 sectors written on each, 2048 in all
C28_Witness ==
    /\ pc = "call" /\ call.fn = "disk_run" /\ ret.done
    /\ Len(call.ticks) = 5 /\ RunLength = 100
    /\ \A i \in 1..5 : call.ticks[i][1] = 20 /\ WroteOnTick(i) \in {409, 410}
    /\ SumSeq([i \in 1..5 |-> WroteOnTick(i)]) = 2048
    /\ IsOne(ret.val.write_avg)

\* a line parse_xplane_log is to skip: text that matches neither pattern
\* (readable or not), a start marker whose date does not parse, a recognized
\* line whose details do not parse
Malformed(line) ==
    \/ line.kind \in {"text", "undecodable"}
    \/ line.kind = "start" /\ ~line.date_ok
    \/ line.kind = "ts" /\ Categorize(line.marks) \in {"DSF", "PRELOAD"} /\ ~line.details

\* C29 (as claimed): parse_xplane_log returns for every log, and returns
\* what it returns for the same log without its malformed lines: each of them
\* is skipped and the lines after it are parsed as if it were not there.
C29_MalformedSkipped ==
    (pc = "call" /\ call.fn = "parse_xplane_log" /\ ret.done) =>
        /\ ~ret.val.raised
        /\ ret.val = parse_xplane_log(SelectSeq(call.lines, LAMBDA l : ~Malformed(l)))

\* the entry vanished before a read the scan makes of it
Vanished(e, patterns) ==
    \/ e[4] = "gone_comm"
    \/ e[4] = "gone_cmdline" /\ FirstMatch(e[2], patterns) = 0

\* some pattern is in comm or, when none is, in the command line
PatternFits(e, patterns) ==
    \/ \E k \in 1..Len(patterns) : ContainsFolded(e[2], patterns[k])
    \/ /\ \A k \in 1..Len(patterns) : ~ContainsFolded(e[2], patterns[k])
       /\ \E k \in 1..Len(patterns) : ContainsFolded(e[3], patterns[k])

\* C30 (as claimed): find_tracked_procs returns for every listing, and its
\* result holds a process iff the process did not vanish before it was read
\* and some pattern is, whatever the case of the letters, in its comm or,
\* when none is, in its command line.
C30_TracksMatching ==
    (pc = "call" /\ call.fn = "find_tracked_procs" /\ ret.done) =>
        /\ ~ret.val.raised
        /\ \A i \in 1..Len(call.entries) :
               (\E t \in ret.val.result : t[1] = call.entries[i][1])
               <=> (~Vanished(call.entries[i], call.patterns)
                      /\ PatternFits(call.entries[i], call.patterns))

\* C31 (as claimed): whenever the disk, interrupt or vmstat block writes its
\* rows, the elapsed time it divides by (now_mono - prev_time for the disk
\* block, now_mono - last_slow for the slow blocks) is the time between the
\* captures of the two snapshots it takes the difference of; for the
\* context-switch rate the two counts are those of this tick and of the last
\* slow tick.
C31_DivisorSpansSnapshots ==
    [][/\ (pc = "disk" /\ "disk" \in tick_wrote') => prev_at["disk"] = prev_time
       /\ (pc = "irq" /\ "irq" \in tick_wrote') => prev_at["irq"] = last_slow
       /\ (pc = "vmstat" /\ "vmstat" \in tick_wrote') =>
              /\ prev_at["vmstat"] = last_slow
              /\ prev_ctxt_at = last_slow
              /\ curr_ctxt_at = now_mono]_vars

\* C32 (as claimed): at the end of every slow tick each PID that has a
\* stored previous reading is a tracked PID.
C32_PrevProcWithinTracked ==
    (pc = "tick_end" /\ SlowTick) =>
        \A p \in Pids : prev_proc[p] # 0 => tracked_pids[p] # 0

\* C33: the failure counter is always between 0 and 3, it is below 3
\* whenever the direct binding is in use, and once the direct binding is out
\* of use no step changes the counter.
C33_CounterBounded ==
    /\ [](/\ 0 <= nvml_fail_count /\ nvml_fail_count <= NVML_FAIL_MAX
          /\ use_nvml => nvml_fail_count < NVML_FAIL_MAX)
    /\ [][~use_nvml => nvml_fail_count' = nvml_fail_count]_vars

\* after the switch, with the counter at 3, a further query went to the
\* subprocess alone and its result was written
C33_Witness ==
    /\ gpu_backend = Fallback
    /\ ~use_nvml
    /\ nvml_fail_count = NVML_FAIL_MAX
    /\ gpu_path = {"smi"}
    /\ pc = "vmstat"
    /\ "gpu" \in tick_wrote


\* C34: a query made while the direct binding is in use and whose direct
\* query fails goes on to the subprocess in the same call, and the tick gets
\* its vram row exactly when the subprocess returns output: the result is
\* empty only when the subprocess gives nothing either.
C34_FallsThroughSameCall ==
    [][\A smi \in {"ok", "empty", "fail"}, parses \in BOOLEAN :
          (NvmlTried /\ GpuSample(FALSE, smi, parses)) =>
              /\ gpu_path' = {"nvml", "smi"}
              /\ (rows'["vram"] = rows["vram"] + 1) <=> (smi = "ok")
              /\ (rows'["vram"] = rows["vram"]) <=> (smi # "ok")]_vars

\* the direct query failed for the first time, the binding is still in use,
\* and the subprocess of the same call supplied the row of the tick
C34_Witness ==
    /\ pc = "vmstat"
    /\ use_nvml
    /\ nvml_fail_count = 1
    /\ gpu_path = {"nvml", "smi"}
    /\ "gpu" \in tick_wrote
    /\ rows["vram"] >= 1


\* C35: with GPU monitoring disabled the backend stays disabled, no query
\* attempts the direct binding or the subprocess, the failure counter is never
\* changed, and no vram row and no GPU statistic is recorded.
C35_DisabledStaysSilent ==
    /\ [](gpu_backend = Disabled =>
              /\ ~use_nvml
              /\ gpu_path = {}
              /\ nvml_fail_count = 0
              /\ nvml_hist = <<>>
              /\ rows["vram"] = 0
              /\ stats["gpu"] = 0)
    /\ [][gpu_backend = Disabled =>
              /\ gpu_backend' = Disabled
              /\ nvml_fail_count' = nvml_fail_count]_vars

\* a disabled run in which the GPU block has run on at least two slow ticks
C35_Witness ==
    /\ gpu_backend = Disabled
    /\ pc = "vmstat"
    /\ "gpu" \in tick_tried
    /\ sample_count >= 1


\* the statistics family that accumulates the values of a stream's rows
FamilyOf(s) == IF s = "vmstat" THEN "vm" ELSE IF s = "vram" THEN "gpu" ELSE s

\* C36 (as claimed): at the end of every tick the rows written to cpu, io,
\* mem, vmstat, psi and vram are as many as the values appended to the
\* matching statistics lists, also when parsing a returned value fails after
\* the row was written.
C36_SinkAndStatsInStep ==
    pc = "tick_end" =>
        \A s \in {"cpu", "io", "mem", "vmstat", "psi", "vram"} :
            rows[s] = stats[FamilyOf(s)]


\* C37 (as claimed): a row is written for a PID only when a reading of that
\* PID is stored, and a PID that a rescan newly puts into tracked_pids has no
\* stored reading, so that its first successful reading writes no row and only
\* records the baseline.
C37_FirstReadingIsBaseline ==
    [][/\ (pc = "proc_read" /\ pc' = "tick_end") =>
              \A p \in Pids : proc_delta'[p] # <<0, 0>> => prev_proc[p] # 0
       /\ (pc = "proc" /\ pc' = "proc_read") =>
              \A p \in Pids : (tracked_pids[p] = 0 /\ tracked_pids'[p] # 0)
                                  => prev_proc[p] = 0]_vars


\* the place of a category in the fixed order of the rules
RuleRank(c) ==
    CASE c = "DSF" -> 1 [] c = "AIRPORT" -> 2 [] c = "WEATHER" -> 3
      [] c = "ERROR" -> 4 [] c = "PRELOAD" -> 5

\* the start time of the last start marker before line i whose date parsed
\* (0 when there is none)
LatestStart(lines, i) ==
    LET S == {j \in 1..(i - 1) : lines[j].kind = "start" /\ lines[j].date_ok}
    IN  IF S = {} THEN 0
        ELSE lines[CHOOSE j \in S : \A k \in S : k <= j].start

\* event e is the one event of timestamped line i: its category is that of
\* the first rule the line matches, a start marker was parsed before the
\* line, and its time is that start plus the offset of the line
EventOfLine(e, lines, i) ==
    /\ lines[i].kind = "ts"
    /\ lines[i].marks # {}
    /\ e[2] \in lines[i].marks
    /\ \A c \in lines[i].marks : RuleRank(e[2]) <= RuleRank(c)
    /\ LatestStart(lines, i) # 0
    /\ e[1] = LatestStart(lines, i) + lines[i].offset

C39_RecorderShutsDown ==
    (xp_pc # "off" /\ (~running \/ duration_over)) ~> (xp_pc = "done")


\* the process of entry e is where class cls wants it under the scheduler
InPlace(e, cls, scheduler) ==
    \/ scheduler = "cfs" /\ e.cg = cls
    \/ scheduler \in {"pds", "bmq"} /\ e.nice = ClassNice(cls)

\* C40: a process that is already in the slice of its class (CFS) or at the
\* nice value of its class (PDS / BMQ) gets no action, and when every action
\* of a scan succeeded the scan that follows it on the unchanged processes
\* applies nothing, returns the empty list and leaves every process as it was.
C40_ScanIdempotent ==
    (pc = "call" /\ call.fn = "run_loop_twice" /\ ret.done) =>
        /\ \A i \in 1..Len(call.entries) :
               LET e == call.entries[i]
               IN  (\E cls \in {"simulator", "streamer", "tools"} :
                        match_process(e) = cls /\ InPlace(e, cls, call.scheduler))
                       => \A k \in 1..Len(ret.val.first.applied) :
                              ret.val.first.applied[k][1] # e.pid
        /\ ret.val.first.failed = {} =>
               /\ ret.val.second.applied = <<>>
               /\ ret.val.second.failed = {}
               /\ ret.val.second.table = ret.val.first.table

\* two processes were moved or reniced by the first scan, no action failed,
\* and the second scan, in which any action would have failed, had none to take
C40_Witness ==
    /\ pc = "call" /\ call.fn = "run_loop_twice" /\ ret.done
    /\ Len(ret.val.first.applied) = 2
    /\ ret.val.first.failed = {}
    /\ call.fails2 = {1, 2}
    /\ ret.val.second.applied = <<>>

=============================================================================
